---- MODULE Spec2Model ----
(***************************************************************************)
(* ProWriteBench: the scoring and aggregation engine.                      *)
(*                                                                         *)
(* Four specifications share this module:                                  *)
(*   SpecConstraint  ConstraintEvaluator.evaluate on (Constraints, text)   *)
(*   SpecEval        the four judge-backed evaluators, one evaluate() call *)
(*   SpecAgg         ScoreAggregator: construction and aggregate()         *)
(*   Spec            ProWriteBench.run_benchmark over a list of tasks      *)
(*                                                                         *)
(* Numbers.  Python floats are modelled in fixed point: a score is an      *)
(* integer number of 1/Scale points, a weight an integer number of         *)
(* hundredths.  Divisions truncate once, at the end of the expression the  *)
(* code evaluates; comparisons against thresholds are made exactly.        *)
(* Strings that the code searches are sequences of one-character strings.  *)
(***************************************************************************)
EXTENDS Integers, Sequences, FiniteSets, TLC

VARIABLES
    \* SpecConstraint
    cin, cout,
    \* SpecEval
    ein, eout,
    \* SpecAgg
    apc, aweights, ain, aout,
    \* Spec (run_benchmark)
    tasks, gen_script, judge_script, gen_calls, judge_calls,
    pc, k, results, revisions, scores, task_results, output, call_log

cvars == <<cin, cout>>
evars == <<ein, eout>>
avars == <<apc, aweights, ain, aout>>
ovars == <<tasks, gen_script, judge_script, gen_calls, judge_calls,
           pc, k, results, revisions, scores, task_results, output, call_log>>
vars == <<cvars, evars, avars, ovars>>

\* Python's None where a dict, list or object is optional: a record no
\* program value equals.
None == [none |-> TRUE]
\* float("inf") among the natural numbers of a word-count range.
Inf == 0 - 1

----------------------------------------------------------------------------
(* Bounds of the model *)

\* Longest required_elements / forbidden_elements list of a Constraints.
MaxElems == 2
\* Most words of a generated text in SpecConstraint.
MaxWords == 2
\* Longest list of Scores handed to aggregate in SpecAgg.
MaxScores == 2
\* Most stakeholders a task declares.
MaxStakeholders == 2
\* Most feedback rounds of a task's revision chain.
MaxRounds == 2
\* Most tasks of one run_benchmark.
MaxTasks == 2
\* Length of the scripts the stub models replay.
ScriptLen == 2
\* Most items (stakeholders, feedback rounds) of the fan-outs whose scores
\* are enumerated.
MaxItems == 3

----------------------------------------------------------------------------
(* Numbers *)

\* Fixed-point resolution: units per score point.
Scale == 10 * 10

\* num/den points as a fixed-point score, truncated.
Fixed(num, den) == (num * Scale) \div den

RECURSIVE SumSeq(_)
SumSeq(s) == IF s = <<>> THEN 0 ELSE Head(s) + SumSeq(Tail(s))

RECURSIVE Pow2(_)
Pow2(n) == IF n = 0 THEN 1 ELSE 2 * Pow2(n - 1)

Max(a, b) == IF a >= b THEN a ELSE b

\* round(x, 2) of x = num/den hundredths, ties to the even hundredth.
Round2(num, den) ==
    LET q == num \div den
        r == num % den
    IN  IF 2 * r > den THEN q + 1
        ELSE IF 2 * r < den THEN q
        ELSE IF q % 2 = 0 THEN q ELSE q + 1

\* The least r in lo..hi with r * r >= x (hi * hi >= x is assumed).
RECURSIVE CeilSqrtIn(_, _, _)
CeilSqrtIn(lo, hi, x) ==
    IF lo >= hi THEN hi
    ELSE LET mid == (lo + hi) \div 2
         IN  IF mid * mid >= x THEN CeilSqrtIn(lo, mid, x)
             ELSE CeilSqrtIn(mid + 1, hi, x)

\* The square root of x rounded up; x below 2^30.
CeilSqrt(x) == CeilSqrtIn(0, 32768, x)

----------------------------------------------------------------------------
(* Strings *)

Str_MissingRequiredElement ==
    <<"M","i","s","s","i","n","g"," ","r","e","q","u","i","r","e","d"," ",
      "e","l","e","m","e","n","t",":"," ">>
Str_ContainsForbiddenElement ==
    <<"C","o","n","t","a","i","n","s"," ","f","o","r","b","i","d","d","e","n"," ",
      "e","l","e","m","e","n","t",":"," ">>
Str_WordCount == <<"W","o","r","d"," ","c","o","u","n","t"," ">>
Str_OutsideRange == <<" ","o","u","t","s","i","d","e"," ","r","a","n","g","e"," ">>
Str_MissingRequired ==
    <<"M","i","s","s","i","n","g"," ","r","e","q","u","i","r","e","d">>
Str_forbidden == <<"f","o","r","b","i","d","d","e","n">>
Str_inf == <<"i","n","f">>
Str_budget == <<"b","u","d","g","e","t">>
Str_Budget == <<"B","u","d","g","e","t">>
Str_plan == <<"p","l","a","n">>

UpperCase == <<"A","B","C","D","E","F","G","H","I","J","K","L","M",
               "N","O","P","Q","R","S","T","U","V","W","X","Y","Z">>
LowerCase == <<"a","b","c","d","e","f","g","h","i","j","k","l","m",
               "n","o","p","q","r","s","t","u","v","w","x","y","z">>
Digits == <<"0","1","2","3","4","5","6","7","8","9">>

\* re.IGNORECASE on ASCII: compare the case-folded characters.
FoldChar(c) ==
    IF \E i \in 1..Len(UpperCase) : UpperCase[i] = c
    THEN LowerCase[CHOOSE i \in 1..Len(UpperCase) : UpperCase[i] = c]
    ELSE c

FoldCase(s) == [i \in 1..Len(s) |-> FoldChar(s[i])]

\* Python's `needle in hay`: a literal, case-sensitive substring test.
Contains(hay, needle) ==
    \E i \in 0..(Len(hay) - Len(needle)) :
        \A j \in 1..Len(needle) : hay[i + j] = needle[j]

\* re.search(re.escape(element), text, re.IGNORECASE): a literal,
\* case-insensitive substring search; its truth value.
SearchIgnoreCase(element, text) == Contains(FoldCase(text), FoldCase(element))

\* str(n) for a natural number.
RECURSIVE IntToStr(_)
IntToStr(n) ==
    IF n < 10 THEN <<Digits[n + 1]>>
    ELSE IntToStr(n \div 10) \o <<Digits[(n % 10) + 1]>>

\* Whitespace as str.split() sees it.
IsSpace(c) == c \in {" ", "\n", "\t"}

\* len(text.split()): the number of maximal runs of non-whitespace.
count_words(text) ==
    Cardinality({i \in 1..Len(text) :
        /\ ~IsSpace(text[i])
        /\ (i = 1 \/ IsSpace(text[i - 1]))})

\* " ".join(words)
RECURSIVE JoinWords(_)
JoinWords(ws) ==
    IF ws = <<>> THEN <<>>
    ELSE IF Len(ws) = 1 THEN ws[1]
    ELSE ws[1] \o <<" ">> \o JoinWords(Tail(ws))

\* All sequences over S of length at most n.
SeqsUpTo(S, n) == UNION {[1..m -> S] : m \in 0..n}

----------------------------------------------------------------------------
(* Score: src/utils/scoring.py *)

Score(dimension, score, weight, passed, details) ==
    [dimension |-> dimension, score |-> score, weight |-> weight,
     passed |-> passed, details |-> details]

\* The critical_failure list of a Score, empty when details has no such key.
Tags(s) ==
    IF "critical_failure" \in DOMAIN s.details
    THEN s.details.critical_failure ELSE <<>>

----------------------------------------------------------------------------
(* ConstraintEvaluator: src/evaluators/constraint_eval.py *)

\* Tolerance band of the word-count check, in tenths.
MinTolerance == 9
MaxTolerance == 11

\* A word_count value is None or a dict over a subset of {"min", "max"};
\* `if constraints.word_count:` is false for None and for the empty dict.
WordCountDeclared(wc) == wc # None /\ DOMAIN wc # {}

min_words(wc) == IF "min" \in DOMAIN wc THEN wc["min"] ELSE 0
max_words(wc) == IF "max" \in DOMAIN wc THEN wc["max"] ELSE Inf

\* A plausible slip: the upper bound taken as exclusive.
word_count_passed_Exclusive(wc, n) ==
    /\ min_words(wc) * MinTolerance <= n * 10
    /\ (max_words(wc) = Inf \/ n * 10 < max_words(wc) * MaxTolerance)

\* min_words * 0.9 <= word_count <= max_words * 1.1.  The comparison is
\* decided in tenths of a word: for integer bounds the double products
\* n * 0.9 and n * 1.1 (350 * 1.1 is 385.00000000000006) lie on the same
\* side of every integer word count as the exact products do.
word_count_passed(wc, n) ==
    /\ min_words(wc) * MinTolerance <= n * 10
    /\ (max_words(wc) = Inf \/ n * 10 <= max_words(wc) * MaxTolerance)

WordCountMessage(wc, n) ==
    Str_WordCount \o IntToStr(n) \o Str_OutsideRange
        \o IntToStr(min_words(wc)) \o <<"-">>
        \o (IF max_words(wc) = Inf THEN Str_inf ELSE IntToStr(max_words(wc)))

\* The failure messages of the word-count check (none or one).
WordCountFailures_NoTolerance(c, text) ==
    IF WordCountDeclared(c.word_count)
          /\ ~(/\ min_words(c.word_count) <= count_words(text)
               /\ (max_words(c.word_count) = Inf
                      \/ count_words(text) <= max_words(c.word_count)))
    THEN <<WordCountMessage(c.word_count, count_words(text))>>
    ELSE <<>>

WordCountFailures(c, text) ==
    IF WordCountDeclared(c.word_count)
          /\ ~word_count_passed(c.word_count, count_words(text))
    THEN <<WordCountMessage(c.word_count, count_words(text))>>
    ELSE <<>>

\* The loop over required_elements: one message per element not found.
RECURSIVE RequiredFailures(_, _)
RequiredFailures(elems, text) ==
    IF elems = <<>> THEN <<>>
    ELSE (IF SearchIgnoreCase(Head(elems), text) THEN <<>>
          ELSE <<Str_MissingRequiredElement \o Head(elems)>>)
         \o RequiredFailures(Tail(elems), text)

\* The loop over forbidden_elements: one message per element found.
RECURSIVE ForbiddenFailures(_, _)
ForbiddenFailures(elems, text) ==
    IF elems = <<>> THEN <<>>
    ELSE (IF SearchIgnoreCase(Head(elems), text)
          THEN <<Str_ContainsForbiddenElement \o Head(elems)>>
          ELSE <<>>)
         \o ForbiddenFailures(Tail(elems), text)

ElementChecks(elems, text) ==
    [i \in 1..Len(elems) |->
        [element |-> elems[i], found |-> SearchIgnoreCase(elems[i], text)]]

ConstraintFailures(c, text) ==
    WordCountFailures(c, text)
        \o RequiredFailures(c.required_elements, text)
        \o ForbiddenFailures(c.forbidden_elements, text)

total_checks(c) ==
    (IF WordCountDeclared(c.word_count) THEN 1 ELSE 0)
        + Len(c.required_elements) + Len(c.forbidden_elements)

\* A plausible slip: the failures are counted as the passed checks.
ConstraintScoreValue_Swapped(c, failures) ==
    IF total_checks(c) = 0 THEN Fixed(100, 1)
    ELSE Fixed(Len(failures) * 100, total_checks(c))

ConstraintScoreValue(c, failures) ==
    IF total_checks(c) = 0 THEN Fixed(100, 1)
    ELSE Fixed((total_checks(c) - Len(failures)) * 100, total_checks(c))

\* A plausible slip: one tag per failure message.
ConstraintCriticalFailures_PerFailure(failures) ==
    [i \in 1..Len(failures) |->
        IF Contains(failures[i], Str_MissingRequired)
        THEN "missing_required_elements" ELSE "contains_forbidden_content"]

\* Lines 94-101: the tags are decided by searching the failure messages.
ConstraintCriticalFailures(failures) ==
    IF failures = <<>> THEN <<>>
    ELSE (IF \E i \in 1..Len(failures) : Contains(failures[i], Str_MissingRequired)
          THEN <<"missing_required_elements">> ELSE <<>>)
         \o
         (IF \E i \in 1..Len(failures) : Contains(failures[i], Str_forbidden)
          THEN <<"contains_forbidden_content">> ELSE <<>>)

\* Lines 81-113: the Score built from the failures collected.
ConstraintScore(c, text, failures) ==
        Score("constraint_satisfaction",
              ConstraintScoreValue(c, failures),
              30,
              Len(failures) = 0,
              [checks |->
                  [word_count |->
                       IF WordCountDeclared(c.word_count)
                       THEN [actual |-> count_words(text),
                             passed |-> word_count_passed(c.word_count,
                                                          count_words(text))]
                       ELSE None,
                   required_elements |-> ElementChecks(c.required_elements, text),
                   forbidden_elements |-> ElementChecks(c.forbidden_elements, text)],
               failures |-> failures,
               critical_failure |-> ConstraintCriticalFailures(failures)])

\* ConstraintEvaluator.evaluate(task, generated_text), on task.constraints.
ConstraintEvaluate(c, text) == ConstraintScore(c, text, ConstraintFailures(c, text))

----------------------------------------------------------------------------
(* JSON values and the judge's replies *)

\* A parsed JSON value is tagged by its only field.
Num(n) == [num |-> n]
Str(x) == [str |-> x]
List(l) == [list |-> l]
Obj(f) == [obj |-> f]
IsNum(v) == DOMAIN v = {"num"}
IsStr(v) == DOMAIN v = {"str"}
IsList(v) == DOMAIN v = {"list"}
IsObj(v) == DOMAIN v = {"obj"}
EmptyObj == Obj(<<>>)

\* Python truthiness of a parsed JSON value.
Truthy(v) ==
    IF IsNum(v) THEN v.num # 0
    ELSE IF IsStr(v) THEN v.str # ""
    ELSE IF IsList(v) THEN v.list # <<>>
    ELSE IF IsObj(v) THEN DOMAIN v.obj # {}
    ELSE FALSE

\* A reply of judge_model.generate: the call raises, or returns a text.  Of a
\* text the model keeps what the two regular expressions find in it: the
\* content of the first fenced block holding a brace-delimited span, and the
\* greedy span from the first "{" to the last "}"; each is None when the
\* expression does not match, and otherwise says whether json.loads accepts
\* the span and the object it yields.
Raises == [kind |-> "raise", fenced |-> None, bare |-> None]
Text(fenced, bare) == [kind |-> "text", fenced |-> fenced, bare |-> bare]
Parses(object) == [parses |-> TRUE, object |-> object]
Unparsable == [parses |-> FALSE, object |-> <<>>]

Ok(value) == [ok |-> TRUE, value |-> value, error |-> ""]
Err(error) == [ok |-> FALSE, value |-> <<>>, error |-> error]

\* The two-step extraction every evaluator repeats: the fenced block if the
\* first expression matches, else the bare span if the second matches, else
\* ValueError; then json.loads of the chosen span.
ExtractJson(reply, not_found) ==
    LET span == IF reply.fenced # None THEN reply.fenced ELSE reply.bare
    IN  IF span = None THEN Err(not_found)
        ELSE IF span.parses THEN Ok(span.object)
        ELSE Err("JSONDecodeError")

\* judge_model.generate followed by the extraction.
JudgeCall(reply, not_found) ==
    IF reply.kind = "raise" THEN Err("judge call failed")
    ELSE ExtractJson(reply, not_found)

\* Threshold of `passed` in the judge-backed evaluators, in points.
PassThreshold == 60
\* The score of a dimension none of whose judge calls succeeded, in points.
NeutralScore == 50

----------------------------------------------------------------------------
(* JudgeEvaluator.evaluate: src/evaluators/judge_eval.py *)

SubCriteria ==
    <<"tone_appropriateness", "diplomatic_language", "professional_formatting",
      "clarity", "completeness">>

\* evaluation.get(name, {}).get("score", 0): AttributeError when the entry
\* is not an object.
SubScore(evaluation, name) ==
    LET entry == IF name \in DOMAIN evaluation THEN evaluation[name] ELSE EmptyObj
    IN  IF ~IsObj(entry) THEN Err("AttributeError")
        ELSE IF "score" \in DOMAIN entry.obj THEN Ok(entry.obj["score"])
        ELSE Ok(Num(0))

\* `critical_issues and any(critical_issues)`; any() of a number raises.
CriticalIssuesFlag(evaluation) ==
    LET issues == IF "critical_issues" \in DOMAIN evaluation
                  THEN evaluation["critical_issues"] ELSE List(<<>>)
    IN  IF ~Truthy(issues) THEN Ok(FALSE)
        ELSE IF IsNum(issues) THEN Err("TypeError")
        ELSE IF IsList(issues)
             THEN Ok(\E i \in 1..Len(issues.list) : Truthy(issues.list[i]))
        ELSE Ok(TRUE)

\* A plausible slip: the fallback Score is built with the default passed.
JudgeNeutral_Passing(error) ==
    Score("professional_appropriateness", NeutralScore * Scale, 15, TRUE,
          [error |-> error, judge_model |-> "judge"])

\* The except branch: the neutral Score.
JudgeNeutral(error) ==
    Score("professional_appropriateness", NeutralScore * Scale, 15, FALSE,
          [error |-> error, judge_model |-> "judge"])

\* A plausible slip: a failed call is issued once more.
JudgeAttempts_Retry(got) == IF got.ok THEN 1 ELSE 2

\* The judge calls of one evaluate(): the generate call of line 97, whose
\* failure goes straight to the except clause.
JudgeAttempts(got) == 1

\* A plausible slip: passed looks at the score alone.
JudgePassed_ScoreOnly(total, n, critical_failures) == total >= PassThreshold * n

\* passed = overall_score >= 60 and not critical_failures, the mean being
\* total / n.
JudgePassed(total, n, critical_failures) ==
    total >= PassThreshold * n /\ critical_failures = <<>>

\* JudgeEvaluator.evaluate(task, generated_text) when the judge's reply to
\* the one call is `reply`.
JudgeEvaluate(task, reply) ==
    LET got == JudgeCall(reply, "No JSON found in judge response")
        subs == [i \in 1..Len(SubCriteria) |-> SubScore(got.value, SubCriteria[i])]
        bad_entry == {i \in 1..Len(subs) : ~subs[i].ok}
        bad_number == {i \in 1..Len(subs) : ~IsNum(subs[i].value)}
        total == SumSeq([i \in 1..Len(subs) |-> subs[i].value.num])
        flag == CriticalIssuesFlag(got.value)
        critical_failures ==
            IF flag.value THEN <<"inappropriate_professional_tone">> ELSE <<>>
        score ==
            IF ~got.ok THEN JudgeNeutral(got.error)
            ELSE IF bad_entry # {} THEN JudgeNeutral("AttributeError")
            ELSE IF bad_number # {} THEN JudgeNeutral("TypeError")
            ELSE IF ~flag.ok THEN JudgeNeutral(flag.error)
            ELSE Score("professional_appropriateness",
                       (total * Scale) \div Len(subs),
                       15,
                       JudgePassed(total, Len(subs), critical_failures),
                       [judge_evaluation |-> got.value,
                        judge_model |-> "judge",
                        critical_failure |-> critical_failures])
    IN  [raised |-> FALSE, calls |-> JudgeAttempts(got), score |-> score]

----------------------------------------------------------------------------
(* The fan-out evaluators: one judge call per item *)

\* One iteration of the try block: the judge call, the extraction and the
\* lookup obj["score"], whose KeyError is caught with the rest.
ItemOutcome(reply) ==
    LET got == JudgeCall(reply, "No JSON found in response")
    IN  IF ~got.ok THEN got
        ELSE IF "score" \in DOMAIN got.value THEN got
        ELSE Err("'score'")

IsOk(outcome) == outcome.ok
ScoreOf(outcome) == outcome.value["score"]

\* The list the loop appends to: obj["score"] of every item that succeeded,
\* as parsed, in item order.
CollectedScores(outcomes) ==
    LET good == SelectSeq(outcomes, IsOk)
    IN  [i \in 1..Len(good) |-> ScoreOf(good[i])]

\* The details entry of an item: the parsed object, or {"error": str(e)}.
ItemEntry(outcome) ==
    IF outcome.ok THEN outcome.value ELSE [error |-> outcome.error]

\* sum(), min() and the subtraction raise TypeError on a list holding
\* anything but numbers.
AllNumbers(values) == \A i \in 1..Len(values) : IsNum(values[i])
Numbers(values) == [i \in 1..Len(values) |-> values[i].num]

RECURSIVE MinSeq(_)
MinSeq(s) ==
    IF Len(s) = 1 THEN s[1]
    ELSE LET m == MinSeq(Tail(s)) IN IF s[1] <= m THEN s[1] ELSE m
RECURSIVE MaxSeq(_)
MaxSeq(s) ==
    IF Len(s) = 1 THEN s[1]
    ELSE LET m == MaxSeq(Tail(s)) IN IF s[1] >= m THEN s[1] ELSE m

Returned(score, calls) == [raised |-> FALSE, calls |-> calls, score |-> score]
Raised(error, calls) == [raised |-> TRUE, calls |-> calls, error |-> error]

\* Names of a list of stakeholders, and a dict's keys in insertion order.
Names(stakeholders) == [i \in 1..Len(stakeholders) |-> stakeholders[i].name]
RECURSIVE Dedupe(_, _)
Dedupe(names, seen) ==
    IF names = <<>> THEN <<>>
    ELSE IF Head(names) \in seen THEN Dedupe(Tail(names), seen)
    ELSE <<Head(names)>> \o Dedupe(Tail(names), seen \cup {Head(names)})

\* An Optional[List]: None, or a list.
NoList == [is_none |-> TRUE, items |-> <<>>]
ListOf(items) == [is_none |-> FALSE, items |-> items]

\* A plausible slip: `is not None` in place of truthiness.
NonEmpty_NotNone(list) == ~list.is_none

\* `if task.scenario.stakeholders:` and the like: neither None nor empty.
NonEmpty(list) == ~list.is_none /\ list.items # <<>>

----------------------------------------------------------------------------
(* AudienceEvaluator.evaluate: src/evaluators/audience_eval.py *)

DefaultAudiences == <<"Executive", "General Professional">>

\* _get_audiences_for_task: the keys of the returned dict, in order.
AudiencesForTask(task) ==
    IF NonEmpty(task.scenario.stakeholders)
    THEN Dedupe(Names(task.scenario.stakeholders.items), {})
    ELSE DefaultAudiences

\* evaluate(task, generated_text); replies[i] answers the i-th judge call.
AudienceEvaluate(task, replies) ==
    LET audiences == AudiencesForTask(task)
        n == Len(audiences)
        outcomes == [i \in 1..n |-> ItemOutcome(replies[i])]
        audience_scores == CollectedScores(outcomes)
        audience_details ==
            [name \in {audiences[i] : i \in 1..n} |->
                ItemEntry(outcomes[CHOOSE i \in 1..n : audiences[i] = name])]
        total == SumSeq(Numbers(audience_scores))
        m == Len(audience_scores)
    IN  IF m > 0 /\ ~AllNumbers(audience_scores) THEN Raised("TypeError", n)
        ELSE Returned(
            Score("audience_clarity",
                  IF m > 0 THEN (total * Scale) \div m ELSE NeutralScore * Scale,
                  25,
                  IF m > 0 THEN total >= PassThreshold * m
                  ELSE NeutralScore >= PassThreshold,
                  [audience_scores |-> audience_details,
                   individual_scores |-> audience_scores]),
            n)

----------------------------------------------------------------------------
(* StakeholderEvaluator.evaluate: src/evaluators/stakeholder_eval.py *)

\* n * sum(s^2) - sum(s)^2: the population variance times n^2.
VarianceTimesN2(xs) ==
    Len(xs) * SumSeq([i \in 1..Len(xs) |-> xs[i] * xs[i]]) - SumSeq(xs) * SumSeq(xs)

\* The least r in lo..hi with (2r+1)^2 * b > 4a: sqrt(a/b) to the nearest
\* integer.
RECURSIVE RoundSqrtIn(_, _, _, _)
RoundSqrtIn(lo, hi, a, b) ==
    IF lo >= hi THEN hi
    ELSE LET mid == (lo + hi) \div 2
         IN  IF (2 * mid + 1) * (2 * mid + 1) * b > 4 * a
             THEN RoundSqrtIn(lo, mid, a, b)
             ELSE RoundSqrtIn(mid + 1, hi, a, b)

\* Standard deviation below which _calculate_balance reports "balanced".
BalancedBelow == 15

\* _calculate_balance(scores): the rounded figures are in hundredths.
CalculateBalance(xs) ==
    IF Len(xs) < 2 THEN [balanced |-> TRUE, variance |-> 0]
    ELSE LET n == Len(xs)
             v == VarianceTimesN2(xs)
         IN  [balanced |-> v < BalancedBelow * BalancedBelow * n * n,
              variance |-> Round2(v * 100, n * n),
              std_dev |-> RoundSqrtIn(0, 50 * 100, v * 100 * 100, n * n),
              range |-> (MaxSeq(xs) - MinSeq(xs)) * 100]

\* A plausible slip: the balance penalty is never subtracted.
StakeholderCombined_NoPenalty(xs) ==
    ((6 * Len(xs) * MinSeq(xs) + 4 * SumSeq(xs)) * Scale) \div (10 * Len(xs))

\* 0.6 * min + 0.4 * mean, less stddev / 10 when there are two scores or
\* more, floored at 0: (6 n min + 4 sum - sqrt(v)) / (10 n), truncated to the
\* fixed-point unit.
StakeholderCombined(xs) ==
    LET n == Len(xs)
        base == 6 * n * MinSeq(xs) + 4 * SumSeq(xs)
    IN  IF n > 1
        THEN Max(0, (base * Scale - CeilSqrt(VarianceTimesN2(xs) * Scale * Scale))
                        \div (10 * n))
        ELSE (base * Scale) \div (10 * n)

\* overall_score >= 60, decided exactly.
StakeholderPassed(xs) ==
    LET n == Len(xs)
        margin == 6 * n * MinSeq(xs) + 4 * SumSeq(xs) - 10 * n * PassThreshold
    IN  IF n > 1
        THEN margin >= 0 /\ margin * margin >= VarianceTimesN2(xs)
        ELSE margin >= 0

\* evaluate(task, generated_text); replies[i] answers the i-th judge call.
StakeholderEvaluate(task, replies) ==
    IF ~NonEmpty(task.scenario.stakeholders)
    THEN Returned(Score("stakeholder_balance", 100 * Scale, 20, TRUE,
                        [message |-> "Not applicable (no stakeholders defined)"]),
                  0)
    ELSE
    LET stakeholders == task.scenario.stakeholders.items
        n == Len(stakeholders)
        outcomes == [i \in 1..n |-> ItemOutcome(replies[i])]
        stakeholder_scores == CollectedScores(outcomes)
        \* a later stakeholder of the same name overwrites the entry
        stakeholder_details ==
            [name \in {stakeholders[i].name : i \in 1..n} |->
                ItemEntry(outcomes[CHOOSE i \in 1..n :
                    /\ stakeholders[i].name = name
                    /\ \A j \in (i + 1)..n : stakeholders[j].name # name])]
        xs == Numbers(stakeholder_scores)
        m == Len(stakeholder_scores)
    IN  IF m > 0 /\ ~AllNumbers(stakeholder_scores) THEN Raised("TypeError", n)
        ELSE Returned(
            Score("stakeholder_balance",
                  IF m > 0 THEN StakeholderCombined(xs) ELSE NeutralScore * Scale,
                  20,
                  IF m > 0 THEN StakeholderPassed(xs)
                  ELSE NeutralScore >= PassThreshold,
                  [stakeholder_scores |-> stakeholder_details,
                   individual_scores |-> stakeholder_scores,
                   balance |-> CalculateBalance(xs)]),
            n)

----------------------------------------------------------------------------
(* RevisionEvaluator.evaluate: src/evaluators/revision_eval.py *)

\* Drop of the last round's score below the first that is penalized, and
\* the penalty factor in tenths.
TrendDrop == 10
TrendFactor == 8

Min(a, b) == IF a <= b THEN a ELSE b

\* A plausible slip: a drop of exactly 10 is penalized too.
TrendPenalized_Inclusive(xs) ==
    Len(xs) > 1 /\ xs[Len(xs)] - xs[1] <= 0 - TrendDrop

\* quality_trend < -10 with two scored rounds or more.
TrendPenalized(xs) ==
    Len(xs) > 1 /\ xs[Len(xs)] - xs[1] < 0 - TrendDrop

\* evaluate(task, revisions); replies[i] answers the i-th judge call and
\* nrev is len(revisions).
RevisionEvaluate(task, nrev, replies) ==
    IF ~NonEmpty(task.revision_chain)
    THEN Returned(Score("revision_coherence", 100 * Scale, 10, TRUE,
                        [message |-> "Not applicable (no revision rounds)"]),
                  0)
    ELSE
    LET chain == task.revision_chain.items
        \* the loop breaks at the first round without a revised version
        n == Min(Len(chain), nrev - 1)
        outcomes == [i \in 1..n |-> ItemOutcome(replies[i])]
        revision_scores == CollectedScores(outcomes)
        revision_details ==
            [i \in 1..n |->
                IF outcomes[i].ok
                THEN [round |-> chain[i].round_number,
                      feedback |-> chain[i].feedback,
                      evaluation |-> outcomes[i].value]
                ELSE [round |-> chain[i].round_number,
                      error |-> outcomes[i].error]]
        xs == Numbers(revision_scores)
        m == Len(revision_scores)
        total == SumSeq(xs)
    IN  IF m > 0 /\ ~AllNumbers(revision_scores) THEN Raised("TypeError", n)
        ELSE Returned(
            Score("revision_coherence",
                  IF m = 0 THEN NeutralScore * Scale
                  ELSE IF TrendPenalized(xs)
                       THEN (total * TrendFactor * Scale) \div (10 * m)
                  ELSE (total * Scale) \div m,
                  10,
                  IF m = 0 THEN NeutralScore >= PassThreshold
                  ELSE IF TrendPenalized(xs)
                       THEN total * TrendFactor >= PassThreshold * 10 * m
                  ELSE total >= PassThreshold * m,
                  [revision_rounds |-> revision_details,
                   round_scores |-> revision_scores]),
            n)

----------------------------------------------------------------------------
(* ScoreAggregator: src/utils/scoring.py *)

\* A plausible slip: a table whose entries sum to 1.10.
DEFAULT_WEIGHTS_Heavy ==
    [constraint_satisfaction |-> 40,
     audience_clarity |-> 25,
     stakeholder_balance |-> 20,
     professional_appropriateness |-> 15,
     revision_coherence |-> 10]

\* DEFAULT_WEIGHTS, in hundredths.
DEFAULT_WEIGHTS ==
    [constraint_satisfaction |-> 30,
     audience_clarity |-> 25,
     stakeholder_balance |-> 20,
     professional_appropriateness |-> 15,
     revision_coherence |-> 10]

\* Bounds of the accepted sum of a weight table, in hundredths.
MinWeightSum == 99
MaxWeightSum == 101

\* sum(self.weights.values())
RECURSIVE SumTable(_)
SumTable(w) ==
    IF DOMAIN w = {} THEN 0
    ELSE LET d == CHOOSE x \in DOMAIN w : TRUE
         IN  w[d] + SumTable([x \in DOMAIN w \ {d} |-> w[x]])

\* `weights or self.DEFAULT_WEIGHTS`: None and the empty dict are falsy.
EffectiveWeights(arg) ==
    IF arg = None \/ DOMAIN arg = {} THEN DEFAULT_WEIGHTS ELSE arg

\* The validation of __init__: TRUE when ValueError is raised.
WeightsRejected(w) ==
    ~(MinWeightSum <= SumTable(w) /\ SumTable(w) <= MaxWeightSum)

\* self.weights.get(score.dimension, 0.0)
WeightOf(w, dimension) == IF dimension \in DOMAIN w THEN w[dimension] ELSE 0

\* A plausible slip: the tags of every Score are collected.
CollectedTags_Always(score) ==
    IF "critical_failure" \in DOMAIN score.details
    THEN score.details.critical_failure ELSE <<>>

\* Lines 75-78: tags are collected from a Score only when it did not pass.
CollectedTags(score) ==
    IF ~score.passed /\ "critical_failure" \in DOMAIN score.details
    THEN score.details.critical_failure ELSE <<>>

\* A plausible slip: a failed Score counts as failed only if it carries tags.
PassedAfter_TagsOnly(all_passed, score) ==
    all_passed /\ (score.passed \/ CollectedTags(score) = <<>>)

\* Lines 75-76: all_passed after one more Score.
PassedAfter(all_passed, score) == all_passed /\ score.passed

\* The loop of aggregate over the Scores, in list order.
RECURSIVE AggregateLoop(_, _, _)
AggregateLoop(w, rest, acc) ==
    IF rest = <<>> THEN acc
    ELSE LET score == Head(rest)
             weight == WeightOf(w, score.dimension)
             entry == [score |-> score.score, weight |-> weight,
                       passed |-> score.passed, details |-> score.details]
         IN  AggregateLoop(w, Tail(rest),
                [weighted_sum |-> acc.weighted_sum + score.score * weight,
                 dimension_scores |->
                     [d \in DOMAIN acc.dimension_scores \cup {score.dimension} |->
                         IF d = score.dimension THEN entry
                         ELSE acc.dimension_scores[d]],
                 critical_failures |->
                     acc.critical_failures \o CollectedTags(score),
                 all_passed |-> PassedAfter(acc.all_passed, score)])

\* A plausible slip: the penalty is applied once, however many tags.
PenaltyDen_Once(n) == 2

\* 0.5 ** n as the fraction 1/den.
PenaltyDen(n) == Pow2(n)

\* ScoreAggregator.aggregate(scores).  weighted_sum is in 1/(Scale*100)
\* points, overall_score in hundredths of a point.
Aggregate(w, score_list) ==
    LET acc == AggregateLoop(w, score_list,
                   [weighted_sum |-> 0, dimension_scores |-> <<>>,
                    critical_failures |-> <<>>, all_passed |-> TRUE])
        n == Len(acc.critical_failures)
    IN  [overall_score |->
             IF n > 0 THEN Round2(acc.weighted_sum, Scale * PenaltyDen(n))
             ELSE Round2(acc.weighted_sum, Scale),
         dimension_scores |-> acc.dimension_scores,
         critical_failures |-> acc.critical_failures,
         penalty_multiplier |->
             [num |-> 1, den |-> IF n > 0 THEN PenaltyDen(n) ELSE 1],
         passed |-> acc.all_passed]

\* dict.update and item assignment: the entries of g over those of f.
Update(f, g) ==
    [x \in DOMAIN f \cup DOMAIN g |-> IF x \in DOMAIN g THEN g[x] ELSE f[x]]

\* sorted(xs), ascending.
RECURSIVE Insert(_, _)
Insert(x, sorted) ==
    IF sorted = <<>> THEN <<x>>
    ELSE IF x <= Head(sorted) THEN <<x>> \o sorted
    ELSE <<Head(sorted)>> \o Insert(x, Tail(sorted))
RECURSIVE Sorted(_)
Sorted(xs) == IF xs = <<>> THEN <<>> ELSE Insert(Head(xs), Sorted(Tail(xs)))

\* task_id.split("-")[0]
RECURSIVE Prefix(_)
Prefix(id) ==
    IF id = <<>> \/ Head(id) = "-" THEN <<>>
    ELSE <<Head(id)>> \o Prefix(Tail(id))

\* A plausible slip: the lower-middle element for even lengths.
Median_LowerMiddle(xs) == Sorted(xs)[(Len(xs) + 1) \div 2]

\* sorted(scores)[len(scores) // 2], sequences being indexed from 1.
Median(xs) == Sorted(xs)[(Len(xs) \div 2) + 1]

\* ScoreAggregator.aggregate_multiple_tasks(task_results): Err("KeyError")
\* when a result record holds no overall_score or no passed.  The rounded
\* figures are in hundredths, as overall_score is.
AggregateMultipleTasks(rs) ==
    IF rs = <<>>
    THEN Ok([average_score |-> 0, median_score |-> 0, pass_rate |-> 0,
             total_tasks |-> 0])
    ELSE IF \E i \in 1..Len(rs) : "overall_score" \notin DOMAIN rs[i]
    THEN Err("KeyError: 'overall_score'")
    ELSE IF \E i \in 1..Len(rs) : "passed" \notin DOMAIN rs[i]
    THEN Err("KeyError: 'passed'")
    ELSE
    LET n == Len(rs)
        overall == [i \in 1..n |-> rs[i].overall_score]
        passed_count == Cardinality({i \in 1..n : rs[i].passed})
        with_id == {i \in 1..n : "task_id" \in DOMAIN rs[i]}
        categories == {Prefix(rs[i].task_id) : i \in with_id}
        members(cat) == {i \in with_id : Prefix(rs[i].task_id) = cat}
        sum_of(cat) ==
            SumSeq([i \in 1..n |-> IF i \in members(cat) THEN overall[i] ELSE 0])
    IN  Ok([average_score |-> Round2(SumSeq(overall), n),
            median_score |-> Median(overall),
            pass_rate |-> Round2(passed_count * 100, n),
            total_tasks |-> n,
            passed_tasks |-> passed_count,
            failed_tasks |-> n - passed_count,
            category_averages |->
                [cat \in categories |->
                    Round2(sum_of(cat), Cardinality(members(cat)))]])

----------------------------------------------------------------------------
(* Inputs of SpecConstraint *)

ElemPool == {Str_budget, Str_forbidden}
Vocab == {Str_Budget, Str_forbidden, Str_plan}

EmptyDict == [x \in {} |-> 0]
WordCountPool ==
    {None, EmptyDict, [min |-> 2], [max |-> 1], [min |-> 1, max |-> 2]}

ConstraintsPool ==
    [word_count : WordCountPool,
     required_elements : SeqsUpTo(ElemPool, MaxElems),
     forbidden_elements : SeqsUpTo(ElemPool, MaxElems)]

TextPool == {JoinWords(ws) : ws \in SeqsUpTo(Vocab, MaxWords)}

----------------------------------------------------------------------------
(* Idle values of each specification's variables *)

ConstraintIdle == cin = None /\ cout = None
EvalIdle == ein = None /\ eout = None
AggIdle == apc = "idle" /\ aweights = None /\ ain = None /\ aout = None
OrchIdle ==
    /\ tasks = <<>> /\ gen_script = <<>> /\ judge_script = <<>>
    /\ gen_calls = 0 /\ judge_calls = 0
    /\ pc = "idle" /\ k = 0 /\ results = None /\ revisions = <<>>
    /\ scores = <<>> /\ task_results = <<>> /\ output = None
    /\ call_log = <<>>

----------------------------------------------------------------------------
(* SpecConstraint: one ConstraintEvaluator.evaluate call per input *)

ConstraintInit ==
    /\ cin \in [constraints : ConstraintsPool, text : TextPool]
    /\ cout = None
    /\ EvalIdle /\ AggIdle /\ OrchIdle

EvaluateConstraints ==
    /\ cin # None
    /\ cout = None
    /\ cout' = ConstraintEvaluate(cin.constraints, cin.text)
    /\ UNCHANGED <<cin, evars, avars, ovars>>

ConstraintNext == EvaluateConstraints

SpecConstraint == ConstraintInit /\ [][ConstraintNext]_vars

----------------------------------------------------------------------------
(* SpecWordCount: ConstraintEvaluator.evaluate on word-count ranges *)

\* A text of n one-letter words.
WordsText(n) == [i \in 1..(2 * n - 1) |-> IF i % 2 = 1 THEN "a" ELSE " "]

MinPool == {2, 10, 200}
MaxPool == {3, 10, 350}
WordRangePool ==
    {[min |-> lo] : lo \in MinPool} \cup {[max |-> hi] : hi \in MaxPool}
        \cup {[min |-> lo, max |-> hi] : lo \in MinPool, hi \in MaxPool}
WordCounts == {0, 1, 2, 3, 4, 8, 9, 10, 11, 12, 179, 180, 181, 384, 385, 386}

WordCountInit ==
    /\ cin \in [constraints : {[word_count |-> wc, required_elements |-> <<>>,
                                forbidden_elements |-> <<>>] : wc \in WordRangePool},
                 text : {WordsText(n) : n \in WordCounts}]
    /\ cout = None
    /\ EvalIdle /\ AggIdle /\ OrchIdle

SpecWordCount == WordCountInit /\ [][ConstraintNext]_vars

----------------------------------------------------------------------------
(* SpecQuick: quick_check and evaluate on the same constraints and text *)

\* A plausible slip: the fast path checks the declared range itself.
quick_check_NoTolerance(c, text) ==
    /\ WordCountDeclared(c.word_count) =>
           /\ min_words(c.word_count) <= count_words(text)
           /\ (max_words(c.word_count) = Inf
                  \/ count_words(text) <= max_words(c.word_count))
    /\ \A i \in 1..Len(c.required_elements) :
           SearchIgnoreCase(c.required_elements[i], text)
    /\ \A i \in 1..Len(c.forbidden_elements) :
           ~SearchIgnoreCase(c.forbidden_elements[i], text)

\* ConstraintEvaluator.quick_check(constraints, generated_text): the range
\* with its own 0.9 and 1.1 factors (lines 127-133), then the two loops.
quick_check(c, text) ==
    /\ WordCountDeclared(c.word_count) =>
           /\ min_words(c.word_count) * MinTolerance <= count_words(text) * 10
           /\ (max_words(c.word_count) = Inf
                  \/ count_words(text) * 10 <= max_words(c.word_count) * MaxTolerance)
    /\ \A i \in 1..Len(c.required_elements) :
           SearchIgnoreCase(c.required_elements[i], text)
    /\ \A i \in 1..Len(c.forbidden_elements) :
           ~SearchIgnoreCase(c.forbidden_elements[i], text)

QuickInit ==
    /\ \/ cin \in [constraints : ConstraintsPool, text : TextPool]
       \/ cin \in [constraints : {[word_count |-> wc, required_elements |-> <<>>,
                                   forbidden_elements |-> <<>>] : wc \in WordRangePool},
                   text : {WordsText(n) : n \in WordCounts}]
    /\ cout = None
    /\ EvalIdle /\ AggIdle /\ OrchIdle

\* Both methods of one evaluator, on the same input.
QuickAndFull ==
    /\ cin # None
    /\ cout = None
    /\ cout' = [quick |-> quick_check(cin.constraints, cin.text),
                full |-> ConstraintEvaluate(cin.constraints, cin.text)]
    /\ UNCHANGED <<cin, evars, avars, ovars>>

SpecQuick == QuickInit /\ [][QuickAndFull]_vars

----------------------------------------------------------------------------
(* Tasks and judge replies the specifications draw from *)

Stakeholder(name) ==
    [name |-> name, needs |-> <<"cost control">>, concerns |-> <<"delays">>]
StakeholderNames == {"CFO", "CTO"}
\* Scenario.stakeholders: None, or a list (two stakeholders may share a name).
StakeholderLists ==
    {NoList} \cup
    {ListOf(l) : l \in SeqsUpTo({Stakeholder(n) : n \in StakeholderNames},
                                MaxStakeholders)}

RevisionRound(i) ==
    [round_number |-> i,
     feedback |-> IF i = 1 THEN "Make it shorter"
                  ELSE IF i = 2 THEN "Make it warmer"
                  ELSE "Add the deadline"]
\* Task.revision_chain: None, or a list of rounds.
RevisionChains ==
    {NoList} \cup {ListOf([i \in 1..r |-> RevisionRound(i)]) : r \in 0..MaxRounds}

\* Task ids, as character sequences.
Id_MS001 == <<"M", "S", "-", "0", "0", "1">>
Id_CR001 == <<"C", "R", "-", "0", "0", "1">>
Id_IR001 == <<"I", "R", "-", "0", "0", "1">>
Id_IR002 == <<"I", "R", "-", "0", "0", "2">>

NoConstraints ==
    [word_count |-> None, required_elements |-> <<>>, forbidden_elements |-> <<>>]

Task(task_id, category, stakeholders, constraints, revision_chain) ==
    [task_id |-> task_id, category |-> category, difficulty |-> "medium",
     scenario |-> [stakeholders |-> stakeholders],
     constraints |-> constraints,
     revision_chain |-> revision_chain]

\* Objects a judge returns for one item of a fan-out.
ItemObject(score) == [score |-> score, reasoning |-> Str("because")]
ObjectWithoutScore == [reasoning |-> Str("because")]

ItemReplies ==
    {Raises,
     Text(None, None),
     Text(None, Unparsable),
     Text(Unparsable, Parses(ItemObject(Num(90)))),
     Text(None, Parses(ObjectWithoutScore)),
     Text(None, Parses(ItemObject(Str("high")))),
     Text(None, Parses(ItemObject(Num(30)))),
     Text(None, Parses(ItemObject(Num(75)))),
     Text(Parses(ItemObject(Num(90))), Parses(ItemObject(Num(90))))}

\* Objects a judge returns to JudgeEvaluator: the first sub-criterion varies,
\* the other four hold `rest`.
SubEntry(score) == Obj([score |-> score, reasoning |-> Str("because")])
FirstEntries ==
    {SubEntry(Num(90)), SubEntry(Num(30)), SubEntry(Str("high")),
     Obj([reasoning |-> Str("because")]), Num(80)}
IssueValues ==
    {List(<<>>), List(<<Str("condescending")>>), List(<<Str("")>>),
     Str("none"), Num(1)}

JudgeObject(first, rest, issues) ==
    [name \in {SubCriteria[i] : i \in 1..Len(SubCriteria)} \cup {"critical_issues"} |->
        IF name = "critical_issues" THEN issues
        ELSE IF name = SubCriteria[1] THEN first
        ELSE SubEntry(Num(rest))]
\* The same without its first sub-criterion and without critical_issues.
JudgeObjectPartial(rest) ==
    [name \in {SubCriteria[i] : i \in 2..Len(SubCriteria)} |-> SubEntry(Num(rest))]

JudgeObjects ==
    {JudgeObject(f, r, i) : f \in FirstEntries, r \in {50, 90}, i \in IssueValues}
        \cup {JudgeObjectPartial(r) : r \in {50, 90}}

JudgeReplies ==
    {Raises, Text(None, None), Text(None, Unparsable)}
        \cup {Text(None, Parses(o)) : o \in JudgeObjects}
        \cup {Text(Parses(o), Parses(o)) : o \in {JudgeObject(SubEntry(Num(90)), 90, List(<<>>))}}

----------------------------------------------------------------------------
(* SpecEval: one evaluate() call of a judge-backed evaluator *)

EvalInit ==
    /\ ein = None
    /\ eout = None
    /\ ConstraintIdle /\ AggIdle /\ OrchIdle

EvalInput(evaluator, task, nrev, replies) ==
    [evaluator |-> evaluator, task |-> task, text |-> <<>>, nrev |-> nrev,
     replies |-> replies]

CallConstraintEvaluator ==
    /\ eout = None
    /\ \E c \in ConstraintsPool, text \in TextPool :
          LET task == Task(Id_IR001, "implicit_requirements", NoList, c, NoList)
          IN  /\ ein' = [EvalInput("constraint", task, 1, <<>>) EXCEPT !.text = text]
              /\ eout' = Returned(ConstraintEvaluate(c, text), 0)
    /\ UNCHANGED <<cvars, avars, ovars>>

CallJudgeEvaluator ==
    /\ eout = None
    /\ \E reply \in JudgeReplies :
          LET task == Task(Id_MS001, "multi_stakeholder", NoList, NoConstraints, NoList)
          IN  /\ ein' = EvalInput("judge", task, 1, <<reply>>)
              /\ eout' = JudgeEvaluate(task, reply)
    /\ UNCHANGED <<cvars, avars, ovars>>

CallAudienceEvaluator ==
    /\ eout = None
    /\ \E stakeholders \in StakeholderLists :
          LET task == Task(Id_MS001, "multi_stakeholder", stakeholders,
                           NoConstraints, NoList)
          IN  \E replies \in [1..Len(AudiencesForTask(task)) -> ItemReplies] :
                  /\ ein' = EvalInput("audience", task, 1, replies)
                  /\ eout' = AudienceEvaluate(task, replies)
    /\ UNCHANGED <<cvars, avars, ovars>>

CallStakeholderEvaluator ==
    /\ eout = None
    /\ \E stakeholders \in StakeholderLists :
          LET task == Task(Id_MS001, "multi_stakeholder", stakeholders,
                           NoConstraints, NoList)
              n == Len(stakeholders.items)
          IN  \E replies \in [1..n -> ItemReplies] :
                  /\ ein' = EvalInput("stakeholder", task, 1, replies)
                  /\ eout' = StakeholderEvaluate(task, replies)
    /\ UNCHANGED <<cvars, avars, ovars>>

CallRevisionEvaluator ==
    /\ eout = None
    /\ \E chain \in RevisionChains, nrev \in 1..(MaxRounds + 1) :
          LET task == Task(Id_CR001, "constrained_revision", NoList,
                           NoConstraints, chain)
              n == Min(Len(chain.items), nrev - 1)
          IN  \E replies \in [1..n -> ItemReplies] :
                  /\ ein' = EvalInput("revision", task, nrev, replies)
                  /\ eout' = RevisionEvaluate(task, nrev, replies)
    /\ UNCHANGED <<cvars, avars, ovars>>

EvalNext ==
    \/ CallConstraintEvaluator
    \/ CallJudgeEvaluator
    \/ CallAudienceEvaluator
    \/ CallStakeholderEvaluator
    \/ CallRevisionEvaluator

SpecEval == EvalInit /\ [][EvalNext]_vars

----------------------------------------------------------------------------
(* SpecStakeholder and SpecRevision: one evaluate() call of a fan-out
   evaluator, over the scores the judge gives to the items *)

\* The judge's reply to one item: the call raises, or an object with this
\* score (the prompts ask for 0-100; nothing clamps the number).
ScoreReply(v) == Text(None, Parses(ItemObject(Num(v))))
StakeholderScoreVals == {0 - 10, 0, 30, 59, 60, 61, 90}
RevisionScoreVals == {50, 60, 70, 75, 80, 90}

ItemName(i) == <<"S">> \o IntToStr(i)
BoardTask(n) ==
    Task(Id_MS001, "multi_stakeholder",
         ListOf([i \in 1..n |-> Stakeholder(ItemName(i))]), NoConstraints, NoList)
ChainTask(r) ==
    Task(Id_CR001, "constrained_revision", NoList, NoConstraints,
         ListOf([i \in 1..r |-> RevisionRound(i)]))

StakeholderInit ==
    /\ ein \in UNION {
          {EvalInput("stakeholder", BoardTask(n), 1, replies) :
              replies \in [1..n -> {Raises} \cup
                                       {ScoreReply(v) : v \in StakeholderScoreVals}]}
          : n \in 1..MaxItems}
    /\ eout = None
    /\ ConstraintIdle /\ AggIdle /\ OrchIdle

\* stakeholder_evaluator.evaluate(task, generated_text)
EvaluateStakeholders ==
    /\ ein # None /\ ein.evaluator = "stakeholder"
    /\ eout = None
    /\ eout' = StakeholderEvaluate(ein.task, ein.replies)
    /\ UNCHANGED <<ein, cvars, avars, ovars>>

SpecStakeholder == StakeholderInit /\ [][EvaluateStakeholders]_vars

RevisionInit ==
    /\ ein \in UNION {
          {EvalInput("revision", ChainTask(r), r + 1, replies) :
              replies \in [1..r -> {Raises} \cup
                                       {ScoreReply(v) : v \in RevisionScoreVals}]}
          : r \in 1..MaxItems}
    /\ eout = None
    /\ ConstraintIdle /\ AggIdle /\ OrchIdle

\* revision_evaluator.evaluate(task, revisions)
EvaluateRevisions ==
    /\ ein # None /\ ein.evaluator = "revision"
    /\ eout = None
    /\ eout' = RevisionEvaluate(ein.task, ein.nrev, ein.replies)
    /\ UNCHANGED <<ein, cvars, avars, ovars>>

SpecRevision == RevisionInit /\ [][EvaluateRevisions]_vars

----------------------------------------------------------------------------
(* SpecRepeat: one ConstraintEvaluator, called again and again *)

\* A plausible slip: the failures list outlives the call that filled it.
StartingFailures_Kept(left) == left

\* failures = [] at line 28: every call starts from an empty list, whatever
\* the call before left behind (the evaluator has no attribute).
StartingFailures(left) == <<>>

MaxCalls == 3
RepeatConstraints ==
    {[word_count |-> None, required_elements |-> <<Str_budget>>,
      forbidden_elements |-> <<>>],
     [word_count |-> None, required_elements |-> <<>>,
      forbidden_elements |-> <<Str_plan>>],
     [word_count |-> [min |-> 2], required_elements |-> <<Str_budget>>,
      forbidden_elements |-> <<Str_forbidden>>]}
RepeatTexts == {JoinWords(<<Str_Budget, Str_plan>>), Str_forbidden}

RepeatInit ==
    /\ cin = None
    /\ cout = None
    /\ call_log = <<>>
    /\ tasks = <<>> /\ gen_script = <<>> /\ judge_script = <<>>
    /\ gen_calls = 0 /\ judge_calls = 0
    /\ pc = "idle" /\ k = 0 /\ results = None /\ revisions = <<>>
    /\ scores = <<>> /\ task_results = <<>> /\ output = None
    /\ EvalIdle /\ AggIdle

\* One more evaluate call on the same evaluator; call_log keeps every call
\* with what it returned.
EvaluateAgain ==
    /\ Len(call_log) < MaxCalls
    /\ \E c \in RepeatConstraints, text \in RepeatTexts :
          LET left == IF cout = None THEN <<>> ELSE cout.details.failures
              score == ConstraintScore(c, text,
                           StartingFailures(left) \o ConstraintFailures(c, text))
          IN  /\ cin' = [constraints |-> c, text |-> text]
              /\ cout' = score
              /\ call_log' = Append(call_log,
                                [constraints |-> c, text |-> text, score |-> score])
    /\ UNCHANGED <<evars, avars, tasks, gen_script, judge_script, gen_calls,
                   judge_calls, pc, k, results, revisions, scores, task_results,
                   output>>

\* Another evaluator is called in between.
EvaluateElsewhere ==
    /\ eout = None
    /\ \E reply \in {Raises, Text(None, None)} :
          LET task == Task(Id_MS001, "multi_stakeholder", NoList, NoConstraints, NoList)
          IN  /\ ein' = EvalInput("judge", task, 1, <<reply>>)
              /\ eout' = JudgeEvaluate(task, reply)
    /\ UNCHANGED <<cvars, avars, ovars>>

RepeatNext == EvaluateAgain \/ EvaluateElsewhere

SpecRepeat == RepeatInit /\ [][RepeatNext]_vars

----------------------------------------------------------------------------
(* The text of a judge reply, and what the extraction finds in it *)

\* A reply text is a sequence of tokens: "fence" (three backticks), "json" (the tag
\* after a fence), " " (a run of whitespace), "{" and "}", "w" (a run of
\* prose without brace or backtick), and inside an object the members
\* "s90" / "s30" ("score": 90 / 30), "r" ("reasoning": "because"),
\* "t:" ("tone_appropriateness": followed by its value) and "c:" ("comment":
\* followed by a string, which is "q" (a quote), any tokens, "q").
Fence == "fence"
Members == {"s90", "s30", "r"}
MemberValue(m) ==
    IF m = "s90" THEN [score |-> Num(90)]
    ELSE IF m = "s30" THEN [score |-> Num(30)]
    ELSE [reasoning |-> Str("because")]

StringValue(content) == IF content = <<"w">> THEN "because" ELSE "stray"

Least(S) == CHOOSE x \in S : \A y \in S : x <= y
Greatest(S) == CHOOSE x \in S : \A y \in S : x >= y

\* The first index from i on that holds no whitespace (Len + 1 if none).
SkipSpace(t, i) == Least({j \in i..(Len(t) + 1) : j = Len(t) + 1 \/ t[j] # " "})

\* json.loads of a span: an object is "{", members, "}"; a member is one of
\* Members, "t:" followed by an object or "c:" followed by a string;
\* whitespace between tokens is skipped; anything else, or text after the closing brace, is an error.
RECURSIVE ParseMembers(_, _)
ParseObject(t) ==
    LET u == SubSeq(t, SkipSpace(t, 1), Len(t))
    IN  IF u = <<>> \/ Head(u) # "{" THEN [ok |-> FALSE, value |-> <<>>, rest |-> <<>>]
        ELSE ParseMembers(Tail(u), <<>>)
ParseMembers(t, acc) ==
    LET u == SubSeq(t, SkipSpace(t, 1), Len(t))
    IN  IF u = <<>> THEN [ok |-> FALSE, value |-> <<>>, rest |-> <<>>]
        ELSE IF Head(u) = "}" THEN [ok |-> TRUE, value |-> acc, rest |-> Tail(u)]
        ELSE IF Head(u) \in Members
             THEN ParseMembers(Tail(u), Update(acc, MemberValue(Head(u))))
        ELSE IF Head(u) = "t:"
             THEN LET sub == ParseObject(Tail(u))
                  IN  IF sub.ok
                      THEN ParseMembers(sub.rest,
                               Update(acc, [tone_appropriateness |-> Obj(sub.value)]))
                      ELSE sub
        ELSE IF Head(u) = "c:"
             THEN LET v == SubSeq(u, SkipSpace(u, 2), Len(u))
                      ends == {j \in 2..Len(v) : v[j] = "q"}
                  IN  IF v = <<>> \/ Head(v) # "q" \/ ends = {}
                      THEN [ok |-> FALSE, value |-> <<>>, rest |-> <<>>]
                      ELSE ParseMembers(SubSeq(v, Least(ends) + 1, Len(v)),
                               Update(acc, [comment |->
                                   Str(StringValue(SubSeq(v, 2, Least(ends) - 1)))]))
        ELSE [ok |-> FALSE, value |-> <<>>, rest |-> <<>>]

JsonLoads(span) ==
    LET got == ParseObject(span)
    IN  IF got.ok /\ SkipSpace(got.rest, 1) = Len(got.rest) + 1
        THEN Parses(got.value) ELSE Unparsable

\* re.search(r'```(?:json)?\s*(\{.*?\})\s*```', text, re.DOTALL) tried at the
\* fence at index i: the indexes of the group's braces, or <<>>.
FencedAt(t, i) ==
    LET a == IF i < Len(t) /\ t[i + 1] = "json" THEN i + 2 ELSE i + 1
        b == SkipSpace(t, a)
        closes == {j \in (b + 1)..Len(t) :
                      /\ t[j] = "}"
                      /\ SkipSpace(t, j + 1) <= Len(t)
                      /\ t[SkipSpace(t, j + 1)] = Fence}
    IN  IF b <= Len(t) /\ t[b] = "{" /\ closes # {}
        THEN <<b, Least(closes)>> ELSE <<>>

\* The group of the leftmost match of the fenced expression, or None.
FencedSpan(t) ==
    LET starts == {i \in 1..Len(t) : t[i] = Fence /\ FencedAt(t, i) # <<>>}
    IN  IF starts = {} THEN None
        ELSE LET m == FencedAt(t, Least(starts)) IN JsonLoads(SubSeq(t, m[1], m[2]))

\* re.search(r'\{.*\}', text, re.DOTALL): from the first "{" that has a "}"
\* after it to the last "}", or None.
BareSpan(t) ==
    LET opens == {i \in 1..Len(t) :
                     t[i] = "{" /\ \E j \in (i + 1)..Len(t) : t[j] = "}"}
    IN  IF opens = {} THEN None
        ELSE JsonLoads(SubSeq(t, Least(opens),
                              Greatest({j \in 1..Len(t) : t[j] = "}"})))

\* The reply whose text is t.
ReplyOf(t) == Text(FencedSpan(t), BareSpan(t))

\* Texts: objects as the judge writes them, prose, and replies built of
\* prose, a block and a trailer.
ObjectTexts ==
    {<<"{", "s90", "}">>,
     <<"{", " ", "s30", " ", "r", " ", "}">>,
     <<"{", "t:", "{", "s90", "r", "}", "r", "}">>,
     <<"{", "t:", "{", "s90", "}", " ", "}">>,
     <<"{", "c:", "q", "w", "q", "s30", "}">>,
     <<"{", "c:", "q", "w", "}", " ", Fence, " ", "w", "q", "s90", "}">>,
     <<"{", "}">>}
BrokenObjectTexts ==
    {<<"{", "w", "}">>, <<"{", "s90">>, <<"{", "t:", "}">>, <<"s90", "}">>}
ProseTexts ==
    {<<>>, <<"w", " ">>, <<"w", " ", "{", "w", "}", " ", "w", " ">>,
     <<"w", " ", Fence, "w", Fence, " ">>,
     <<"w", " ", Fence, "{", "w", "}", Fence, " ", "w", " ">>}
TrailerTexts == {<<>>, <<" ", "w">>, <<" ", "{", "s30", "}">>}

Fenced(o) == <<Fence, "json", " ">> \o o \o <<" ", Fence>>
FencedUntagged(o) == <<Fence>> \o o \o <<Fence>>

BlockTexts ==
    {<<>>} \cup ObjectTexts \cup BrokenObjectTexts
        \cup {Fenced(o) : o \in ObjectTexts \cup BrokenObjectTexts}
        \cup {FencedUntagged(o) : o \in ObjectTexts}
ReplyTexts ==
    {p \o b \o t : p \in ProseTexts, b \in BlockTexts, t \in TrailerTexts}

----------------------------------------------------------------------------
(* SpecExtract: the extraction on reply texts *)

\* What the extraction and its two kinds of owner make of a reply text.
Extraction(t) ==
    [extracted |-> ExtractJson(ReplyOf(t), "No JSON found in response"),
     item |-> ItemEntry(ItemOutcome(ReplyOf(t))),
     judge |-> JudgeEvaluate(
                   Task(Id_MS001, "multi_stakeholder", NoList, NoConstraints, NoList),
                   ReplyOf(t)).score]

ExtractInit ==
    /\ ein = None
    /\ eout = None
    /\ ConstraintIdle /\ AggIdle /\ OrchIdle

\* The same object once after prose in a tagged fenced block, once alone.
ExtractBoth ==
    /\ eout = None
    /\ \E p \in ProseTexts \ {<<>>}, o \in ObjectTexts :
          /\ ein' = [evaluator |-> "extract_both", prose |-> p, object |-> o]
          /\ eout' = [from_fenced |-> Extraction(p \o Fenced(o)),
                      from_bare |-> Extraction(o)]
    /\ UNCHANGED <<cvars, avars, ovars>>

\* Any reply text.
ExtractOne ==
    /\ eout = None
    /\ \E t \in ReplyTexts :
          /\ ein' = [evaluator |-> "extract", text |-> t]
          /\ eout' = Extraction(t)
    /\ UNCHANGED <<cvars, avars, ovars>>

ExtractNext == ExtractBoth \/ ExtractOne

SpecExtract == ExtractInit /\ [][ExtractNext]_vars

----------------------------------------------------------------------------
(* SpecPairwise: JudgeEvaluator.pairwise_compare on one judge reply *)

\* str.upper() on the letters a reply is made of here.
UpperChar(c) ==
    IF c = "a" THEN "A" ELSE IF c = "b" THEN "B" ELSE IF c = "t" THEN "T" ELSE c
Upper(text) == [i \in 1..Len(text) |-> UpperChar(text[i])]

\* str.strip(): leading and trailing whitespace removed.
Strip(text) ==
    LET inked == {i \in 1..Len(text) : ~IsSpace(text[i])}
    IN  IF inked = {} THEN <<>> ELSE SubSeq(text, Least(inked), Greatest(inked))

In(c, text) == \E i \in 1..Len(text) : text[i] = c

\* A plausible slip: the first letter found decides.
Verdict_FirstWins(response) ==
    IF In("A", response) THEN "A"
    ELSE IF In("B", response) THEN "B"
    ELSE "tie"

\* Lines 190-195, on response = response.strip().upper().
Verdict(response) ==
    IF In("A", response) /\ ~In("B", response) THEN "A"
    ELSE IF In("B", response) /\ ~In("A", response) THEN "B"
    ELSE "tie"

\* The judge raises, or replies with a text.
RawReply(text) == [kind |-> "text", text |-> text]
RaisingReply == [kind |-> "raise", text |-> <<>>]

\* pairwise_compare(task, text_a, text_b) when the judge does `reply`.
PairwiseResult(reply) ==
    IF reply.kind = "raise" THEN [raised |-> FALSE, value |-> "tie"]
    ELSE [raised |-> FALSE, value |-> Verdict(Upper(Strip(reply.text)))]

MaxReply == 3
ReplyChars == {"a", "A", "b", "B", "t", " "}

PairwiseInit ==
    /\ ein = None
    /\ eout = None
    /\ ConstraintIdle /\ AggIdle /\ OrchIdle

PairwiseCompare ==
    /\ eout = None
    /\ \E reply \in {RaisingReply} \cup {RawReply(t) : t \in SeqsUpTo(ReplyChars, MaxReply)} :
          /\ ein' = [evaluator |-> "pairwise_compare", reply |-> reply]
          /\ eout' = PairwiseResult(reply)
    /\ UNCHANGED <<cvars, avars, ovars>>

SpecPairwise == PairwiseInit /\ [][PairwiseCompare]_vars

----------------------------------------------------------------------------
(* SpecAgg: ScoreAggregator(weights), then one aggregate(scores) call *)

AggDims == {"constraint_satisfaction", "audience_clarity"}
WeightVals == {0, 49, 50, 51, 100}
\* The `weights` argument: absent (None) or a table over any set of keys.
TablePool == {None} \cup UNION {[D -> WeightVals] : D \in SUBSET AggDims}

TagListPool == {<<>>, <<"tag_a">>, <<"tag_a", "tag_b">>}
DetailsPool ==
    {[message |-> "no tags"]} \cup {[critical_failure |-> t] : t \in TagListPool}
ScorePool ==
    [dimension : AggDims, score : {50 * Scale, 75 * Scale}, weight : {30},
     passed : BOOLEAN, details : DetailsPool]

AggInit ==
    /\ apc = "new"
    /\ ain \in TablePool
    /\ aweights = None
    /\ aout = None
    /\ ConstraintIdle /\ EvalIdle /\ OrchIdle

\* ScoreAggregator.__init__(weights)
Construct ==
    /\ apc = "new"
    /\ IF WeightsRejected(EffectiveWeights(ain))
       THEN apc' = "ValueError" /\ aweights' = None
       ELSE apc' = "ready" /\ aweights' = EffectiveWeights(ain)
    /\ UNCHANGED <<ain, aout, cvars, evars, ovars>>

\* aggregate(scores) on the constructed aggregator; ain keeps the argument.
AggregateScores ==
    /\ apc = "ready"
    /\ \E score_list \in SeqsUpTo(ScorePool, MaxScores) :
          /\ ain' = score_list
          /\ aout' = Aggregate(aweights, score_list)
    /\ apc' = "aggregated"
    /\ UNCHANGED <<aweights, cvars, evars, ovars>>

AggNext == Construct \/ AggregateScores

SpecAgg == AggInit /\ [][AggNext]_vars

----------------------------------------------------------------------------
(* SpecWeights: ScoreAggregator(weights), then the aggregation of a task's
   five dimension Scores *)

\* The dimensions, in the order evaluate_task appends their Scores.
Dimensions ==
    <<"constraint_satisfaction", "professional_appropriateness",
      "stakeholder_balance", "audience_clarity", "revision_coherence">>

\* The `weights` argument: absent, empty, the default table, the default
\* with one weight moved, a table over one dimension, over the five with
\* equal weights, and one that gives part of the weight to another key.
WeightTables ==
    {None, EmptyDict, DEFAULT_WEIGHTS,
     [constraint_satisfaction |-> 100],
     [d \in {Dimensions[i] : i \in 1..Len(Dimensions)} |-> 20],
     Update(DEFAULT_WEIGHTS, [constraint_satisfaction |-> 20, style |-> 10])}
        \cup {Update(DEFAULT_WEIGHTS, [audience_clarity |-> v]) : v \in {23, 24, 26, 27}}

\* One Score per dimension, as an evaluator builds it.
DimensionScore(i, points, passed) ==
    Score(Dimensions[i], points * Scale, DEFAULT_WEIGHTS[Dimensions[i]], passed,
          [critical_failure |-> <<>>])

WeightsInit ==
    /\ apc = "new"
    /\ ain \in WeightTables
    /\ aweights = None
    /\ aout = None
    /\ ConstraintIdle /\ EvalIdle /\ OrchIdle

\* score_aggregator.aggregate(scores) on the five Scores of a task.
AggregateFive ==
    /\ apc = "ready"
    /\ \E points \in {50, 90}, passed \in [1..Len(Dimensions) -> BOOLEAN] :
          LET score_list ==
                  [i \in 1..Len(Dimensions) |-> DimensionScore(i, points, passed[i])]
          IN  /\ ain' = score_list
              /\ aout' = Aggregate(aweights, score_list)
    /\ apc' = "aggregated"
    /\ UNCHANGED <<aweights, cvars, evars, ovars>>

WeightsNext == Construct \/ AggregateFive

SpecWeights == WeightsInit /\ [][WeightsNext]_vars

----------------------------------------------------------------------------
(* Spec: ProWriteBench.run_benchmark, src/benchmark.py *)

\* The tasks a run loads: one with stakeholders, one with a revision chain,
\* two with neither (each field once absent, once an empty list).
TaskPool ==
    {Task(Id_MS001, "multi_stakeholder",
          ListOf(<<Stakeholder("CFO"), Stakeholder("CTO")>>),
          [word_count |-> None, required_elements |-> <<Str_budget, Str_plan>>,
           forbidden_elements |-> <<Str_forbidden>>],
          NoList),
     Task(Id_CR001, "constrained_revision", NoList,
          [word_count |-> None, required_elements |-> <<>>,
           forbidden_elements |-> <<Str_plan>>],
          ListOf(<<RevisionRound(1), RevisionRound(2)>>)),
     Task(Id_IR001, "implicit_requirements", NoList,
          [word_count |-> [min |-> 1, max |-> 2], required_elements |-> <<>>,
           forbidden_elements |-> <<>>],
          ListOf(<<>>)),
     Task(Id_IR002, "implicit_requirements", ListOf(<<>>),
          [word_count |-> [min |-> 2], required_elements |-> <<>>,
           forbidden_elements |-> <<>>],
          NoList)}

\* What the model under evaluation does on a generate call: raise, or
\* return a text; its successive texts alternate between two drafts.
GenerationFails == [fails |-> TRUE]
DraftText == JoinWords(<<Str_Budget, Str_plan>>)
OtherDraft == Str_forbidden
Generates(text) == [fails |-> FALSE, text |-> text]
GenOutcomes == {GenerationFails, Generates(DraftText)}

\* What the judge model does on a call: an object that answers every
\* evaluator's prompt (score, the five sub-criteria, critical_issues).
FullObject(score, sub, issues) ==
    Update(JudgeObject(SubEntry(Num(sub)), sub, issues),
           [score |-> score, reasoning |-> Str("because")])
ScriptReplies ==
    {Raises,
     Text(None, Parses(FullObject(Num(100), 100, List(<<>>)))),
     Text(None, Parses(FullObject(Num(0), 0, List(<<Str("condescending")>>)))),
     Text(None, Parses(FullObject(Str("high"), 90, List(<<>>))))}

\* Both models are stubs replaying a script: the n-th call gets entry
\* n mod ScriptLen.
Replay(script, n) == script[(n % Len(script)) + 1]
NextGeneration ==
    IF Replay(gen_script, gen_calls).fails THEN GenerationFails
    ELSE IF gen_calls % 2 = 0 THEN Generates(DraftText)
    ELSE Generates(OtherDraft)
NextReplies(n) == [i \in 1..n |-> Replay(judge_script, judge_calls + i - 1)]

\* What the run has invoked so far, in order.
LogEntry(op, by) == [task |-> k, op |-> op, by |-> by]
JudgeCallsBy(evaluator, n) == [i \in 1..n |-> LogEntry("judge_call", evaluator)]

\* What the revision prompt of benchmark.py:153-165 is made of: the latest
\* version and the feedback of the round being generated.
RevisionPrompt(task, revs) ==
    [previous_version |-> revs[Len(revs)],
     feedback |-> task.revision_chain.items[Len(revs)].feedback]

\* A plausible slip: every round is judged against the initial draft.
RevisionPairs_FromFirst(task, revs) ==
    IF ~NonEmpty(task.revision_chain) THEN <<>>
    ELSE [i \in 1..Min(Len(task.revision_chain.items), Len(revs) - 1) |->
             [previous_version |-> revs[1],
              feedback |-> task.revision_chain.items[i].feedback,
              revised_version |-> revs[i + 1]]]

\* What RevisionEvaluator.evaluate hands to _evaluate_revision, round by
\* round (revision_eval.py:79-90).
RevisionPairs(task, revs) ==
    IF ~NonEmpty(task.revision_chain) THEN <<>>
    ELSE [i \in 1..Min(Len(task.revision_chain.items), Len(revs) - 1) |->
             [previous_version |-> revs[i],
              feedback |-> task.revision_chain.items[i].feedback,
              revised_version |-> revs[i + 1]]]

\* The judge calls of the revision evaluator, each with its prompt.
RevisionCalls(task, revs) ==
    [i \in 1..Len(RevisionPairs(task, revs)) |->
        Update(LogEntry("judge_call", "revision"),
               [prompt |-> RevisionPairs(task, revs)[i]])]

CurrentTask == tasks[k]
IsRevisionTask(task) == NonEmpty(task.revision_chain)

Init ==
    /\ tasks \in UNION {[1..n -> TaskPool] : n \in 0..MaxTasks}
    /\ gen_script \in [1..ScriptLen -> GenOutcomes]
    /\ judge_script \in [1..ScriptLen -> ScriptReplies]
    /\ gen_calls = 0 /\ judge_calls = 0
    /\ pc = "run_benchmark" /\ k = 0 /\ results = None /\ revisions = <<>>
    /\ scores = <<>> /\ task_results = <<>> /\ output = None
    /\ call_log = <<>>
    /\ ConstraintIdle /\ EvalIdle /\ AggIdle

\* run_benchmark up to the loop: no tasks, no run.
StartRun ==
    /\ pc = "run_benchmark"
    /\ IF tasks = <<>>
       THEN /\ output' = [error |-> "No tasks found"]
            /\ pc' = "returned"
            /\ k' = k
       ELSE /\ output' = output
            /\ pc' = "evaluate_task"
            /\ k' = 1
    /\ UNCHANGED <<tasks, gen_script, judge_script, gen_calls, judge_calls,
                   results, revisions, scores, task_results, call_log,
                   cvars, evars, avars>>

\* evaluate_task: the fresh result record.
BeginTask ==
    /\ pc = "evaluate_task"
    /\ results' = [task_id |-> CurrentTask.task_id,
                   category |-> CurrentTask.category,
                   difficulty |-> CurrentTask.difficulty]
    /\ revisions' = <<>>
    /\ scores' = <<>>
    /\ pc' = "generate"
    /\ UNCHANGED <<tasks, gen_script, judge_script, gen_calls, judge_calls, k,
                   task_results, output, call_log, cvars, evars, avars>>

\* `results["error"] = str(e)` of the except clause around generation, as a
\* variant that also scores the failed task zero.
FailedResult_Scored(r) ==
    Update(r, [error |-> "generation failed", overall_score |-> 0,
               passed |-> FALSE])

\* `results["error"] = str(e)` of the except clause around generation.
FailedResult(r) == Update(r, [error |-> "generation failed"])

\* The first generate call of the task, of either kind.
GenerateText ==
    /\ pc = "generate"
    /\ gen_calls' = gen_calls + 1
    /\ call_log' = Append(call_log, LogEntry("generate", "model"))
                       \o (IF NextGeneration.fails
                           THEN <<LogEntry("raise", "model")>> ELSE <<>>)
    /\ IF NextGeneration.fails
       THEN /\ results' = FailedResult(results)
            /\ revisions' = revisions
            /\ pc' = "task_returned"
       ELSE /\ revisions' = <<NextGeneration.text>>
            /\ IF IsRevisionTask(CurrentTask)
                  /\ CurrentTask.revision_chain.items # <<>>
               THEN results' = results /\ pc' = "revise"
               ELSE IF IsRevisionTask(CurrentTask)
               THEN \* the feedback loop has nothing to go through
                    /\ results' = Update(results,
                                         [revisions |-> <<NextGeneration.text>>,
                                          generated_text |-> NextGeneration.text])
                    /\ pc' = "constraint"
               ELSE /\ results' = Update(results,
                                         [generated_text |-> NextGeneration.text])
                    /\ pc' = "constraint"
    /\ UNCHANGED <<tasks, gen_script, judge_script, judge_calls, k, scores,
                   task_results, output, cvars, evars, avars>>

\* One pass of the feedback loop of _evaluate_revision_task.
ReviseText ==
    /\ pc = "revise"
    /\ gen_calls' = gen_calls + 1
    /\ call_log' = Append(call_log,
                          Update(LogEntry("generate", "model"),
                                 [prompt |-> RevisionPrompt(CurrentTask, revisions)]))
                       \o (IF NextGeneration.fails
                           THEN <<LogEntry("raise", "model")>> ELSE <<>>)
    /\ IF NextGeneration.fails
       THEN /\ results' = FailedResult(results)
            /\ revisions' = revisions
            /\ pc' = "task_returned"
       ELSE LET revised == Append(revisions, NextGeneration.text)
            IN  /\ revisions' = revised
                /\ IF Len(revised) = Len(CurrentTask.revision_chain.items) + 1
                   THEN /\ results' = Update(results,
                                        [revisions |-> revised,
                                         generated_text |-> revised[Len(revised)]])
                        /\ pc' = "constraint"
                   ELSE results' = results /\ pc' = "revise"
    /\ UNCHANGED <<tasks, gen_script, judge_script, judge_calls, k, scores,
                   task_results, output, cvars, evars, avars>>

FinalText == revisions[Len(revisions)]

\* A plausible slip: the audience evaluator runs before the stakeholder one.
EvaluatorAfter_AudienceFirst(step) ==
    IF step = "constraint" THEN "judge"
    ELSE IF step = "judge" THEN "audience"
    ELSE IF step = "audience" THEN "stakeholder"
    ELSE IF step = "stakeholder" THEN "revision"
    ELSE "aggregate"

\* The statement that follows each evaluate call in evaluate_task (lines
\* 108-129 and 187-208).
EvaluatorAfter(step) ==
    IF step = "constraint" THEN "judge"
    ELSE IF step = "judge" THEN "stakeholder"
    ELSE IF step = "stakeholder" THEN "audience"
    ELSE IF step = "audience" THEN "revision"
    ELSE "aggregate"

\* An evaluate call, with the text (or the list of versions) it is given.
EvaluateEntry(evaluator, input) ==
    Update(LogEntry("evaluate", evaluator), [input |-> input])

\* 1. constraint_evaluator.evaluate(task, text)
EvalConstraint ==
    /\ pc = "constraint"
    /\ scores' = Append(scores, ConstraintEvaluate(CurrentTask.constraints, FinalText))
    /\ call_log' = Append(call_log, EvaluateEntry("constraint", FinalText))
    /\ pc' = EvaluatorAfter("constraint")
    /\ UNCHANGED <<tasks, gen_script, judge_script, gen_calls, judge_calls, k,
                   results, revisions, task_results, output, cvars, evars, avars>>

\* An evaluate() call of a judge-backed evaluator: its Score is appended,
\* or its exception leaves evaluate_task and run_benchmark.
RunEvaluatorOn(evaluator, input, calls, outcome, next_pc) ==
    /\ judge_calls' = judge_calls + outcome.calls
    /\ call_log' = Append(call_log, EvaluateEntry(evaluator, input)) \o calls
    /\ IF outcome.raised
       THEN /\ pc' = "raised"
            /\ output' = [exception |-> outcome.error]
            /\ scores' = scores
       ELSE /\ pc' = next_pc
            /\ output' = output
            /\ scores' = Append(scores, outcome.score)
    /\ UNCHANGED <<tasks, gen_script, judge_script, gen_calls, k, results,
                   revisions, task_results, cvars, evars, avars>>

\* The evaluators that are given the final text.
RunEvaluator(evaluator, outcome, next_pc) ==
    RunEvaluatorOn(evaluator, FinalText, JudgeCallsBy(evaluator, outcome.calls),
                   outcome, next_pc)

\* 2. judge_evaluator.evaluate(task, text)
EvalJudge ==
    /\ pc = "judge"
    /\ RunEvaluator("judge", JudgeEvaluate(CurrentTask, NextReplies(1)[1]),
                    EvaluatorAfter("judge"))

\* 3. stakeholder_evaluator.evaluate(task, text)
EvalStakeholder ==
    /\ pc = "stakeholder"
    /\ RunEvaluator("stakeholder",
                    StakeholderEvaluate(CurrentTask,
                        NextReplies(Len(CurrentTask.scenario.stakeholders.items))),
                    EvaluatorAfter("stakeholder"))

\* 4. audience_evaluator.evaluate(task, text)
EvalAudience ==
    /\ pc = "audience"
    /\ RunEvaluator("audience",
                    AudienceEvaluate(CurrentTask,
                        NextReplies(Len(AudiencesForTask(CurrentTask)))),
                    EvaluatorAfter("audience"))

\* 5. revision_evaluator.evaluate(task, revisions)
EvalRevision ==
    /\ pc = "revision"
    /\ RunEvaluatorOn("revision", revisions,
                      RevisionCalls(CurrentTask, revisions),
                      RevisionEvaluate(CurrentTask, Len(revisions),
                          NextReplies(Len(CurrentTask.revision_chain.items))),
                      EvaluatorAfter("revision"))

\* score_aggregator.aggregate(scores); results.update(...); return results
AggregateTask ==
    /\ pc = "aggregate"
    /\ results' = Update(results, Aggregate(EffectiveWeights(None), scores))
    /\ call_log' = Append(call_log, LogEntry("aggregate", "aggregator"))
    /\ pc' = "task_returned"
    /\ UNCHANGED <<tasks, gen_script, judge_script, gen_calls, judge_calls, k,
                   revisions, scores, task_results, output, cvars, evars, avars>>

\* task_results.append(result), and on to the next task.
FinishTask ==
    /\ pc = "task_returned"
    /\ task_results' = Append(task_results, results)
    /\ IF k < Len(tasks)
       THEN k' = k + 1 /\ pc' = "evaluate_task"
       ELSE k' = k /\ pc' = "summary"
    /\ UNCHANGED <<tasks, gen_script, judge_script, gen_calls, judge_calls,
                   results, revisions, scores, output, call_log,
                   cvars, evars, avars>>

\* aggregate_multiple_tasks(task_results) and the returned record.
Summarize ==
    /\ pc = "summary"
    /\ LET stats == AggregateMultipleTasks(task_results)
       IN  IF stats.ok
           THEN /\ output' = [model |-> "model", judge_model |-> "judge",
                              summary |-> stats.value,
                              task_results |-> task_results]
                /\ pc' = "returned"
           ELSE /\ output' = [exception |-> stats.error]
                /\ pc' = "raised"
    /\ UNCHANGED <<tasks, gen_script, judge_script, gen_calls, judge_calls, k,
                   results, revisions, scores, task_results, call_log,
                   cvars, evars, avars>>

\* aggregate_multiple_tasks on lists of scored results.
MaxResults == 4
OverallPool == {0, 4550, 6000, 9025}
ScoredResult(v) ==
    [task_id |-> IF v = 4550 THEN Id_CR001 ELSE Id_MS001,
     overall_score |-> v, passed |-> v >= 6000]

RECURSIVE ResultLists(_)
ResultLists(n) ==
    IF n = 0 THEN {<<>>}
    ELSE LET shorter == ResultLists(n - 1)
         IN  shorter \cup {<<ScoredResult(v)>> \o rs :
                               v \in OverallPool,
                               rs \in {x \in shorter : Len(x) = n - 1}}

SummaryInit ==
    /\ task_results \in ResultLists(MaxResults) \ {<<>>}
    /\ pc = "summary"
    /\ tasks = <<>> /\ gen_script = <<>> /\ judge_script = <<>>
    /\ gen_calls = 0 /\ judge_calls = 0
    /\ k = 0 /\ results = None /\ revisions = <<>>
    /\ scores = <<>> /\ output = None /\ call_log = <<>>
    /\ ConstraintIdle /\ EvalIdle /\ AggIdle

SpecSummary == SummaryInit /\ [][Summarize]_vars

Next ==
    \/ StartRun
    \/ BeginTask
    \/ GenerateText
    \/ ReviseText
    \/ EvalConstraint
    \/ EvalJudge
    \/ EvalStakeholder
    \/ EvalAudience
    \/ EvalRevision
    \/ AggregateTask
    \/ FinishTask
    \/ Summarize

Spec == Init /\ [][Next]_vars

----------------------------------------------------------------------------
(* Claims about ConstraintEvaluator.evaluate (SpecConstraint) *)

Evaluated == cout # None

RequiredMissing(c, text) ==
    {i \in 1..Len(c.required_elements) :
        ~SearchIgnoreCase(c.required_elements[i], text)}
ForbiddenPresent(c, text) ==
    {i \in 1..Len(c.forbidden_elements) :
        SearchIgnoreCase(c.forbidden_elements[i], text)}
WordCountFails(c, text) ==
    /\ WordCountDeclared(c.word_count)
    /\ ~word_count_passed(c.word_count, count_words(text))
HasTag(s, tag) == \E i \in 1..Len(Tags(s)) : Tags(s)[i] = tag

\* C9: the tag missing_required_elements is in critical_failure exactly when
\* a required substring is missing from the text, and the tag
\* contains_forbidden_content exactly when a forbidden substring is present.
C9_TagsExact ==
    Evaluated =>
        /\ HasTag(cout, "missing_required_elements")
              <=> RequiredMissing(cin.constraints, cin.text) # {}
        /\ HasTag(cout, "contains_forbidden_content")
              <=> ForbiddenPresent(cin.constraints, cin.text) # {}

\* The checks that pass, counted one by one.
ChecksPassed(c, text) ==
    (IF WordCountDeclared(c.word_count) /\ ~WordCountFails(c, text) THEN 1 ELSE 0)
        + (Len(c.required_elements) - Cardinality(RequiredMissing(c, text)))
        + (Len(c.forbidden_elements) - Cardinality(ForbiddenPresent(c, text)))
ChecksTotal(c) ==
    (IF WordCountDeclared(c.word_count) THEN 1 ELSE 0)
        + Len(c.required_elements) + Len(c.forbidden_elements)

\* C10: the constraint score is 100 x (checks passed / total checks), each
\* check counted on its own, 100 when no check applies, and passed holds
\* iff no check failed.
C10_ScoreIsPassedOverTotal ==
    Evaluated =>
        LET c == cin.constraints
            n == ChecksTotal(c)
            p == ChecksPassed(c, cin.text)
        IN  /\ n = 0 => cout.score = 100 * Scale
            /\ n > 0 => cout.score = (100 * p * Scale) \div n
            /\ cout.passed <=> (p = n)

\* Three kinds of check apply, and each kind has a failing check next to
\* passing checks of the other kinds being possible: a mixed score.
C10_Witness ==
    /\ Evaluated
    /\ WordCountFails(cin.constraints, cin.text)
    /\ Len(cin.constraints.required_elements) = 2
    /\ Cardinality(RequiredMissing(cin.constraints, cin.text)) = 1
    /\ Len(cin.constraints.forbidden_elements) = 2
    /\ Cardinality(ForbiddenPresent(cin.constraints, cin.text)) = 1
    /\ cout.score = (100 * 2 * Scale) \div 5
    /\ ~cout.passed

----------------------------------------------------------------------------
(* Claims about ScoreAggregator (SpecAgg) *)

Aggregated == apc = "aggregated"
Absolute(x) == IF x < 0 THEN 0 - x ELSE x

\* Sum of score_i times the table weight of its dimension, in
\* 1/(Scale*100) points.
WeightedSumOf(w, sl) ==
    SumSeq([i \in 1..Len(sl) |-> sl[i].score * WeightOf(w, sl[i].dimension)])

\* The tags of all Scores, and those of the Scores that did not pass.
TagCountAll(sl) == SumSeq([i \in 1..Len(sl) |-> Len(Tags(sl[i]))])
TagCountFailed(sl) ==
    SumSeq([i \in 1..Len(sl) |-> IF sl[i].passed THEN 0 ELSE Len(Tags(sl[i]))])

\* overall (hundredths) is ws * 0.5^n rounded to two decimals: it lies
\* within half a hundredth of it.
IsRounded(overall, ws, n) ==
    Absolute(overall * Scale * Pow2(n) - ws) <= (Scale * Pow2(n)) \div 2

C3_PassedIsConjunction ==
    Aggregated => (aout.passed <=> \A i \in 1..Len(ain) : ain[i].passed)

\* One Score failed with no tag and no penalty, the other passed: the
\* result did not pass.
C3_Witness ==
    /\ Aggregated
    /\ Len(ain) = 2
    /\ ain[1].passed
    /\ ~ain[2].passed /\ Tags(ain[2]) = <<>>
    /\ aout.penalty_multiplier.den = 1
    /\ ~aout.passed

\* C4: for every table passed to the constructor, the empty one included,
\* construction fails iff the table's weights do not sum to 1.0 within 0.01.
C4_FailsIffSumOff ==
    (apc \in {"ready", "ValueError"} /\ ain # None) =>
        (apc = "ValueError"
            <=> ~(MinWeightSum <= SumTable(ain) /\ SumTable(ain) <= MaxWeightSum))

----------------------------------------------------------------------------
(* Claims about the evaluators (SpecEval) *)

Called(evaluator) == eout # None /\ ein.evaluator = evaluator
FanOutCalled ==
    Called("audience") \/ Called("stakeholder") \/ Called("revision")

\* The judge calls an evaluate() made: one per reply drawn.
ItemCount == Len(ein.replies)

\* The item's reply is an object whose `score` is a number.
ItemScored(reply) ==
    /\ reply.kind = "text"
    /\ LET span == IF reply.fenced # None THEN reply.fenced ELSE reply.bare
       IN  /\ span # None
           /\ span.parses
           /\ "score" \in DOMAIN span.object
           /\ IsNum(span.object["score"])

\* C5: whatever the judge does for an item, the fan-out evaluators return
\* a Score without raising, and every other item still contributes its
\* score.
C5_FanOutIsolatesFailures ==
    FanOutCalled =>
        /\ ~eout.raised
        /\ Len(eout.score.details[IF ein.evaluator = "revision"
                                  THEN "round_scores" ELSE "individual_scores"])
             = Cardinality({i \in 1..ItemCount : ItemScored(ein.replies[i])})

\* The reply makes the judge evaluation fail: the call raises, no object is
\* found, the object does not parse, or a sub-score is malformed.
SubMalformed(object, name) ==
    /\ name \in DOMAIN object
    /\ \/ ~IsObj(object[name])
       \/ /\ "score" \in DOMAIN object[name].obj
          /\ ~IsNum(object[name].obj["score"])
JudgeReplyFails(reply) ==
    \/ reply.kind = "raise"
    \/ reply.fenced = None /\ reply.bare = None
    \/ LET span == IF reply.fenced # None THEN reply.fenced ELSE reply.bare
       IN  \/ ~span.parses
           \/ \E i \in 1..Len(SubCriteria) : SubMalformed(span.object, SubCriteria[i])

\* C6: JudgeEvaluator.evaluate never raises, and a failed judge call,
\* extraction, parse or sub-score yields the neutral Score: dimension
\* professional_appropriateness, score 50, passed false, the error string in
\* details.
C6_JudgeNeverPropagates ==
    Called("judge") =>
        /\ ~eout.raised
        /\ JudgeReplyFails(ein.replies[1]) =>
              /\ eout.score.dimension = "professional_appropriateness"
              /\ eout.score.score = 50 * Scale
              /\ ~eout.score.passed
              /\ "error" \in DOMAIN eout.score.details
              /\ eout.score.details.error # ""

\* The judge's object holds a sub-score that is not a number.
C6_Witness ==
    /\ Called("judge")
    /\ ein.replies[1].kind = "text"
    /\ ein.replies[1].bare # None
    /\ ein.replies[1].bare.parses
    /\ SubMalformed(ein.replies[1].bare.object, SubCriteria[1])
    /\ eout.score.details.error = "TypeError"
    /\ eout.score.score = 50 * Scale

\* C8: a Score returned by any of the five evaluators has a non-empty
\* critical_failure list only if its passed is false.
C8_TagsOnlyWhenFailed ==
    (eout # None /\ ~eout.raised) =>
        (Tags(eout.score) # <<>> => ~eout.score.passed)

\* The judge reports a critical issue next to sub-scores of 90: the Score
\* is tagged and does not pass.
C8_Witness ==
    /\ Called("judge")
    /\ ~eout.raised
    /\ eout.score.score = 90 * Scale
    /\ Tags(eout.score) = <<"inappropriate_professional_tone">>
    /\ ~eout.score.passed

----------------------------------------------------------------------------
(* Claims about run_benchmark and evaluate_task (Spec) *)

\* A generate call of task j raised.
GenerationFailed(j) ==
    \E i \in 1..Len(call_log) : call_log[i].task = j /\ call_log[i].op = "raise"

\* evaluate_task has returned for task j, and the record it returned.
TaskReturned(j) ==
    j <= Len(task_results) \/ (j = k /\ pc = "task_returned")
ResultOf(j) == IF j <= Len(task_results) THEN task_results[j] ELSE results

RunEnded == pc \in {"returned", "raised"}
EvaluatorRaised == pc = "raised" /\ output.exception = "TypeError"

ScoreKeys == {"overall_score", "passed", "critical_failures", "dimension_scores"}

\* C1: when the generation call of a task raises (and no evaluator raises),
\* run_benchmark still returns its output record (model, judge_model, summary,
\* task_results), in which the failed task has an error field and every other
\* task has its scores.
C1_RunSurvivesGenerationFailure ==
    (RunEnded /\ ~EvaluatorRaised /\ \E j \in 1..Len(tasks) : GenerationFailed(j))
        => /\ pc = "returned"
           /\ DOMAIN output = {"model", "judge_model", "summary", "task_results"}
           /\ Len(output.task_results) = Len(tasks)
           /\ \A j \in 1..Len(tasks) :
                 IF GenerationFailed(j)
                 THEN "error" \in DOMAIN output.task_results[j]
                 ELSE ScoreKeys \subseteq DOMAIN output.task_results[j]

\* C7: once a generate call of a task has raised (single draft, initial
\* draft or a later revision round), evaluate_task has returned, without
\* raising, a record that holds the task's task_id, category and difficulty
\* and an error field and none of overall_score, passed, critical_failures,
\* dimension_scores; and no evaluator and no judge call was made for that
\* task.
C7_GenerationFailureRecord ==
    \A j \in 1..Len(tasks) :
        GenerationFailed(j) =>
            /\ TaskReturned(j)
            /\ LET r == ResultOf(j)
               IN  /\ {"task_id", "category", "difficulty", "error"}
                        \subseteq DOMAIN r
                   /\ r.task_id = tasks[j].task_id
                   /\ r.category = tasks[j].category
                   /\ r.difficulty = tasks[j].difficulty
                   /\ DOMAIN r \cap ScoreKeys = {}
            /\ \A i \in 1..Len(call_log) :
                  call_log[i].task = j => call_log[i].op \in {"generate", "raise"}

\* A revision task whose generate call for a feedback round raised, after
\* its initial draft was generated, has returned its error record.
C7_Witness ==
    /\ pc = "task_returned"
    /\ GenerationFailed(k)
    /\ IsRevisionTask(CurrentTask)
    /\ revisions # <<>>
    /\ "error" \in DOMAIN results

----------------------------------------------------------------------------
(* Claims about the word-count check (SpecWordCount) *)

\* The evaluated text's word count, and whether the check rejected it.
WordsIn == count_words(cin.text)
RangeIn == cin.constraints.word_count
WordCountRejected ==
    \E i \in 1..Len(cout.details.failures) :
        Contains(cout.details.failures[i], Str_WordCount)
Range200To350 == RangeIn = [min |-> 200, max |-> 350]

\* C11: with a declared range the word-count check passes iff
\* min*0.9 <= word count <= max*1.1, both bounds inclusive, min defaulting
\* to 0 and max to unbounded; with min=200, max=350 a text of 385 words is
\* accepted and texts of 179 and 386 words are rejected.
C11_WordCountBand ==
    (Evaluated /\ WordCountDeclared(RangeIn)) =>
        LET lo == IF "min" \in DOMAIN RangeIn THEN RangeIn["min"] ELSE 0
            inside ==
                /\ 9 * lo <= 10 * WordsIn
                /\ ("max" \in DOMAIN RangeIn => 10 * WordsIn <= 11 * RangeIn["max"])
        IN  /\ WordCountRejected <=> ~inside
            /\ cout.details.checks.word_count.passed <=> inside
            /\ (Range200To350 /\ WordsIn = 385) => ~WordCountRejected
            /\ (Range200To350 /\ WordsIn \in {179, 386}) => WordCountRejected

\* A text of exactly 385 words was accepted under min=200, max=350.
C11_Witness ==
    /\ Evaluated /\ Range200To350 /\ WordsIn = 385
    /\ cout.passed /\ cout.details.checks.word_count.passed

\* C12 as stated: under min=200, max=350 a text of exactly 180 words is
\* rejected by the word-count check.
C12_Rejects180 ==
    (Evaluated /\ Range200To350 /\ WordsIn = 180) => WordCountRejected

\* C12 amended: under min=200, max=350 a text of exactly 180 words is
\* accepted by the word-count check (180 = 200*0.9 is inside the inclusive
\* band) and a text of 179 words is rejected.
C12_Accepts180 ==
    (Evaluated /\ Range200To350) =>
        /\ WordsIn = 180 => (~WordCountRejected /\ cout.passed)
        /\ WordsIn = 179 => (WordCountRejected /\ ~cout.passed)

\* A text of exactly 180 words was evaluated under min=200, max=350.
C12_Witness ==
    /\ Evaluated /\ Range200To350 /\ WordsIn = 180
    /\ cout.details.checks.word_count.actual = 180

----------------------------------------------------------------------------
(* Claims about the stakeholder combination rule (SpecStakeholder) *)

\* The scores of the items whose judge reply yielded one, in item order.
RepliedScores ==
    LET good == SelectSeq(ein.replies, ItemScored)
    IN  [i \in 1..Len(good) |-> good[i].bare.object["score"].num]

\* With B = 6 n min + 4 sum and V = n sum(x^2) - sum(x)^2, the value
\* 0.6 min + 0.4 mean - stddev/10 is (B - sqrt(V)) / (10 n) points.
CombinedB(xs) == 6 * Len(xs) * MinSeq(xs) + 4 * SumSeq(xs)
CombinedV(xs) ==
    Len(xs) * SumSeq([i \in 1..Len(xs) |-> xs[i] * xs[i]]) - SumSeq(xs) * SumSeq(xs)

\* h hundredths of a point are at most that value.
AtMostCombined(h, xs) ==
    LET d == 10 * CombinedB(xs) - Len(xs) * h
    IN  d >= 0 /\ 100 * CombinedV(xs) <= d * d

\* s is that value, floored at 0 when `floored`, cut to the hundredth.
IsCombined(s, xs, floored) ==
    IF floored /\ ~AtMostCombined(0, xs) THEN s = 0
    ELSE AtMostCombined(s, xs) /\ ~AtMostCombined(s + 1, xs)

AllEqual(xs) == \A i \in 1..Len(xs) : xs[i] = xs[1]

\* C13 as stated: for every non-empty list of extracted stakeholder scores,
\* a single score included, the dimension score is
\* max(0, 0.6 min + 0.4 mean - stddev/10) and passed iff that is >= 60.
C13_FlooredForEveryList ==
    (Called("stakeholder") /\ RepliedScores # <<>>) =>
        /\ ~eout.raised
        /\ IsCombined(eout.score.score, RepliedScores, TRUE)
        /\ eout.score.passed <=> AtMostCombined(60 * Scale, RepliedScores)

\* C13 amended: the dimension score is 0.6 min + 0.4 mean - stddev/10 with
\* population stddev, floored at 0 only when two scores or more were
\* extracted (a single score s gives s itself, negative or not); passed iff
\* the value >= 60; all-equal scores s >= 0 give exactly s; [90, 90, 90]
\* gives 90 and [90, 30, 90] gives 43.17.
C13_FlooredFromTwoScores ==
    (Called("stakeholder") /\ RepliedScores # <<>>) =>
        LET xs == RepliedScores
            s == eout.score.score
        IN  /\ ~eout.raised
            /\ IsCombined(s, xs, Len(xs) > 1)
            /\ eout.score.passed <=> AtMostCombined(60 * Scale, xs)
            /\ (Len(xs) = 1 \/ (AllEqual(xs) /\ xs[1] >= 0)) => s = xs[1] * Scale
            /\ xs = <<90, 90, 90>> => s = 90 * Scale
            /\ xs = <<90, 30, 90>> => s = 4317

\* Three stakeholders scored 90, 30 and 90: the combined value is 43.17 and
\* the dimension does not pass.
C13_Witness ==
    /\ Called("stakeholder") /\ ~eout.raised
    /\ RepliedScores = <<90, 30, 90>>
    /\ eout.score.score = 4317
    /\ ~eout.score.passed

----------------------------------------------------------------------------
(* Claims about the revision trend penalty (SpecRevision) *)

\* s hundredths is num/den points cut to the hundredth.
IsQuotient(s, num, den) == s * den <= num * Scale /\ num * Scale < (s + 1) * den

\* C14: the dimension score is the mean of the scored rounds, times 0.8 iff
\* two rounds or more were scored and the last scored round is more than 10
\* points below the first (a drop of exactly 10 is not penalized); passed
\* iff the final value >= 60; [80, 60] gives 56 and [80, 75] gives 77.5.
C14_TrendPenalty ==
    (Called("revision") /\ RepliedScores # <<>>) =>
        LET xs == RepliedScores
            m == Len(xs)
            s == eout.score.score
            drop == xs[1] - xs[m]
            penalized == m >= 2 /\ drop > 10
        IN  /\ ~eout.raised
            /\ IF penalized
               THEN /\ IsQuotient(s, 8 * SumSeq(xs), 10 * m)
                    /\ eout.score.passed <=> 8 * SumSeq(xs) >= 60 * 10 * m
               ELSE /\ IsQuotient(s, SumSeq(xs), m)
                    /\ eout.score.passed <=> SumSeq(xs) >= 60 * m
            /\ xs = <<80, 60>> => s = 56 * Scale
            /\ xs = <<80, 75>> => s = 7750
            /\ xs = <<80, 70>> => s = 75 * Scale

\* Rounds scored 80 then 60: the mean 70 is cut to 56 and the dimension
\* does not pass.
C14_Witness ==
    /\ Called("revision") /\ ~eout.raised
    /\ RepliedScores = <<80, 60>>
    /\ eout.score.score = 56 * Scale
    /\ ~eout.score.passed

----------------------------------------------------------------------------
(* Claims about the non-applicable dimensions (Spec) *)

\* evaluate_task has returned the scores of task j.
TaskScored(j) == TaskReturned(j) /\ ScoreKeys \subseteq DOMAIN ResultOf(j)

NoStakeholdersNoChain(task) ==
    /\ (task.scenario.stakeholders.is_none \/ task.scenario.stakeholders.items = <<>>)
    /\ (task.revision_chain.is_none \/ task.revision_chain.items = <<>>)

AutoPassed(entry) == entry.score = 100 * Scale /\ entry.passed

JudgeCallsOf(j, evaluator) ==
    {i \in 1..Len(call_log) :
        /\ call_log[i].task = j
        /\ call_log[i].op = "judge_call"
        /\ call_log[i].by = evaluator}

\* C15: for a task with no stakeholders and no revision chain (absent or
\* empty), evaluate_task yields stakeholder_balance and revision_coherence
\* with score 100 and passed, whatever the text and the judge's replies, and
\* makes no judge call for these two dimensions.
C15_AutoPass ==
    \A j \in 1..Len(tasks) :
        (TaskScored(j) /\ NoStakeholdersNoChain(tasks[j])) =>
            LET dims == ResultOf(j).dimension_scores
            IN  /\ AutoPassed(dims.stakeholder_balance)
                /\ AutoPassed(dims.revision_coherence)
                /\ JudgeCallsOf(j, "stakeholder") = {}
                /\ JudgeCallsOf(j, "revision") = {}

\* Two tasks without stakeholders and chain were scored on different texts,
\* the judge failing for one of them; both dimensions passed at 100.
C15_Witness ==
    /\ Len(task_results) = 2
    /\ \A j \in 1..2 :
          /\ TaskScored(j) /\ NoStakeholdersNoChain(tasks[j])
          /\ AutoPassed(task_results[j].dimension_scores.stakeholder_balance)
          /\ AutoPassed(task_results[j].dimension_scores.revision_coherence)
    /\ task_results[1].generated_text # task_results[2].generated_text
    /\ tasks[1].revision_chain.is_none # tasks[2].revision_chain.is_none
    /\ \E j \in 1..2 :
          "error" \in DOMAIN task_results[j].dimension_scores
                                 .professional_appropriateness.details

----------------------------------------------------------------------------
(* Claims about the judge's pass rule (SpecEval) *)

\* The object the extraction takes from the reply.
ParsedObject(reply) ==
    IF reply.fenced # None THEN reply.fenced.object ELSE reply.bare.object

\* The reply parses, its sub-scores are well formed and its critical_issues
\* is a list.
JudgeReplyWithIssueList(reply) ==
    /\ ~JudgeReplyFails(reply)
    /\ "critical_issues" \in DOMAIN ParsedObject(reply)
    /\ IsList(ParsedObject(reply)["critical_issues"])

\* C16: for every parsed judge reply, passed = (mean sub-score >= 60) and
\* (the critical_issues list is empty); every non-empty critical_issues
\* list, whatever its entries, yields exactly one
\* inappropriate_professional_tone tag and passed = false.
C16_PassRuleAndTag ==
    (Called("judge") /\ JudgeReplyWithIssueList(ein.replies[1])) =>
        LET issues == ParsedObject(ein.replies[1])["critical_issues"].list
        IN  /\ eout.score.passed <=>
                  (eout.score.score >= 60 * Scale /\ issues = <<>>)
            /\ issues # <<>> =>
                  /\ Tags(eout.score) = <<"inappropriate_professional_tone">>
                  /\ ~eout.score.passed
            /\ issues = <<>> => Tags(eout.score) = <<>>

----------------------------------------------------------------------------
(* Claims about the weights applied (SpecWeights) *)

\* The sum of the weights recorded in dimension_scores, in hundredths.
AppliedWeightSum ==
    SumSeq([i \in 1..Len(Dimensions) |-> aout.dimension_scores[Dimensions[i]].weight])

\* C17: for every aggregator constructed successfully and every aggregation
\* of the five dimension Scores of a task, the weights recorded in
\* dimension_scores sum to 1.0 within 0.01.
C17_AppliedWeightsSumToOne ==
    apc = "aggregated" => (99 <= AppliedWeightSum /\ AppliedWeightSum <= 101)

----------------------------------------------------------------------------
(* Claims about the extraction (SpecExtract) *)

\* Some stretch of the text is an object that json.loads accepts.
HoldsObject(t) ==
    \E i \in 1..Len(t), j \in 1..Len(t) : i <= j /\ JsonLoads(SubSeq(t, i, j)).parses

\* What the owners make of a failed extraction: the entry {"error": ...} of
\* the item, the neutral Score of the judge evaluator.
TurnedIntoError(out) ==
    /\ ~out.extracted.ok
    /\ out.item = [error |-> out.extracted.error]
    /\ "error" \in DOMAIN out.judge.details
    /\ out.judge = JudgeNeutral(out.judge.details.error)

\* C18: a reply made of explanatory prose followed by a fenced block holding
\* an object yields the same parsed record as the bare object alone; a
\* reply that holds no parseable object makes the extraction fail, and the
\* owning evaluator turns the failure into an error entry or a neutral Score.
C18_FencedParsesAsBare ==
    /\ (eout # None /\ ein.evaluator = "extract_both") =>
           /\ eout.from_bare.extracted.ok
           /\ eout.from_fenced = eout.from_bare
    /\ (eout # None /\ ein.evaluator = "extract" /\ ~HoldsObject(ein.text)) =>
           TurnedIntoError(eout)

----------------------------------------------------------------------------
(* Claims about the summary (SpecSummary) *)

OverallScores == [i \in 1..Len(task_results) |-> task_results[i].overall_score]

\* The element that floor(len/2) elements precede in ascending order: fewer
\* than floor(len/2) + 1 elements are below it, at least that many are not
\* above it.
AtSortedIndex(m, xs, index) ==
    /\ \E i \in 1..Len(xs) : xs[i] = m
    /\ Cardinality({i \in 1..Len(xs) : xs[i] < m}) <= index
    /\ Cardinality({i \in 1..Len(xs) : xs[i] <= m}) >= index + 1

\* C19: for every non-empty list of scored task results, median_score is the
\* element at index floor(len/2) of the overall scores sorted ascending: the
\* middle element for odd lengths, the upper-middle one for even lengths.
C19_MedianIsUpperMiddle ==
    (pc = "returned" /\ task_results # <<>>) =>
        AtSortedIndex(output.summary.median_score, OverallScores,
                      Len(task_results) \div 2)

\* An even number of results whose two middle scores differ.
C19_Witness ==
    /\ pc = "returned"
    /\ Len(task_results) = 4
    /\ output.summary.median_score = 6000
    /\ Cardinality({i \in 1..4 : OverallScores[i] < 6000}) = 2
    /\ Cardinality({i \in 1..4 : OverallScores[i] > 6000}) = 1

----------------------------------------------------------------------------
(* Claims about repeated constraint checks (SpecRepeat) *)

SameInput(a, b) == a.constraints = b.constraints /\ a.text = b.text
SameVerdict(a, b) ==
    /\ a.score.score = b.score.score
    /\ a.score.passed = b.score.passed
    /\ a.score.details.critical_failure = b.score.details.critical_failure
    /\ a.score.details.failures = b.score.details.failures

\* C20: evaluating the same (Constraints, text) pair again, at any point and
\* after any other evaluations, yields a Score identical in score, passed,
\* critical_failure and failures.
C20_ConstraintCheckIdempotent ==
    \A i \in 1..Len(call_log), j \in 1..Len(call_log) :
        SameInput(call_log[i], call_log[j]) => SameVerdict(call_log[i], call_log[j])

\* A failing pair evaluated first and third, a different pair with another
\* verdict and a judge evaluation in between.
C20_Witness ==
    /\ Len(call_log) = 3
    /\ SameInput(call_log[1], call_log[3])
    /\ ~SameInput(call_log[1], call_log[2])
    /\ call_log[1].score.details.failures # <<>>
    /\ call_log[2].score.details.failures # <<>>
    /\ ~SameVerdict(call_log[1], call_log[2])
    /\ eout # None

----------------------------------------------------------------------------
(* Claims about pairwise_compare (SpecPairwise) *)

Compared == eout # None /\ ein.evaluator = "pairwise_compare"
HasLetter(reply, lower, upper) ==
    reply.kind = "text" /\ \E i \in 1..Len(reply.text) : reply.text[i] \in {lower, upper}

\* C21: for every judge reply the result is one of A, B, tie; it is A iff the
\* upper-cased reply holds the letter A and not B, B iff it holds B and not
\* A, tie otherwise (both, neither, or the judge raising); it never raises.
C21_PairwiseVerdict ==
    Compared =>
        LET has_a == HasLetter(ein.reply, "a", "A")
            has_b == HasLetter(ein.reply, "b", "B")
        IN  /\ ~eout.raised
            /\ eout.value \in {"A", "B", "tie"}
            /\ eout.value = "A" <=> (has_a /\ ~has_b)
            /\ eout.value = "B" <=> (has_b /\ ~has_a)

\* A lower-case reply naming both texts, B first.
C21_Witness ==
    /\ Compared
    /\ ein.reply = RawReply(<<"b", " ", "a">>)
    /\ eout.value = "tie"

----------------------------------------------------------------------------
(* Claims about the order of the calls (Spec) *)

\* The place of a call in evaluate_task: generation, then the five
\* evaluators with their judge calls, then the aggregation.
Stage(entry) ==
    IF entry.by = "model" THEN 0
    ELSE IF entry.by = "constraint" THEN 1
    ELSE IF entry.by = "judge" THEN 2
    ELSE IF entry.by = "stakeholder" THEN 3
    ELSE IF entry.by = "audience" THEN 4
    ELSE IF entry.by = "revision" THEN 5
    ELSE 6

CallsOf(j, op, by) ==
    {i \in 1..Len(call_log) :
        call_log[i].task = j /\ call_log[i].op = op /\ call_log[i].by = by}

EvaluatorOrder == <<"constraint", "judge", "stakeholder", "audience", "revision">>

\* C22: the calls of task k all come before any call of task k+1; within a
\* task every generation call precedes every evaluator call, the evaluators
\* run one after another in the order constraint, judge, stakeholder,
\* audience, revision (none twice, none skipped), and one aggregation
\* follows the five of them, exactly one for every task that was scored.
C22_SequentialOrchestration ==
    /\ \A a \in 1..Len(call_log), b \in 1..Len(call_log) :
          a < b =>
              /\ call_log[a].task <= call_log[b].task
              /\ call_log[a].task = call_log[b].task =>
                     Stage(call_log[a]) <= Stage(call_log[b])
    /\ \A j \in 1..Len(tasks) :
          /\ \A e \in 1..5 :
                /\ Cardinality(CallsOf(j, "evaluate", EvaluatorOrder[e])) <= 1
                /\ (e > 1 /\ CallsOf(j, "evaluate", EvaluatorOrder[e]) # {}) =>
                       CallsOf(j, "evaluate", EvaluatorOrder[e - 1]) # {}
          /\ Cardinality(CallsOf(j, "aggregate", "aggregator")) <= 1
          /\ CallsOf(j, "aggregate", "aggregator") # {} =>
                 CallsOf(j, "evaluate", "revision") # {}
          /\ TaskScored(j) =>
                 Cardinality(CallsOf(j, "aggregate", "aggregator")) = 1

\* A run of two scored tasks, the first with a revision chain and judge
\* calls by the stakeholder evaluator in the second.
C22_Witness ==
    /\ pc = "returned"
    /\ Len(tasks) = 2
    /\ TaskScored(1) /\ TaskScored(2)
    /\ IsRevisionTask(tasks[1])
    /\ Cardinality(CallsOf(1, "generate", "model")) = 3
    /\ Cardinality(CallsOf(2, "judge_call", "stakeholder")) = 2

----------------------------------------------------------------------------
(* Claims about the revision chain (Spec) *)

\* The calls of task j of one kind, in the order they were made.
EntriesOf(j, op, by) ==
    LET Wanted(e) == e.task = j /\ e.op = op /\ e.by = by
    IN  SelectSeq(call_log, Wanted)

\* Task j has feedback rounds and its revision evaluator has been called
\* (so every generation call of the task succeeded).
ChainEvaluated(j) ==
    IsRevisionTask(tasks[j]) /\ CallsOf(j, "evaluate", "revision") # {}

\* C23: for a task with r >= 1 feedback rounds whose generation calls all
\* succeed, the orchestrator produces exactly r+1 artifacts, artifact[i]
\* being generated from artifact[i-1] and the feedback of round i; the
\* revision evaluator judges exactly the r adjacent pairs (artifact[i-1],
\* feedback of round i, artifact[i]) in round order; the other four
\* dimensions are evaluated on the last artifact only.
C23_RevisionChain ==
    \A j \in 1..Len(tasks) :
        ChainEvaluated(j) =>
            LET chain == tasks[j].revision_chain.items
                r == Len(chain)
                artifact == ResultOf(j).revisions
                generated == EntriesOf(j, "generate", "model")
                judged == EntriesOf(j, "judge_call", "revision")
            IN  /\ Len(artifact) = r + 1
                /\ Len(generated) = r + 1
                /\ "prompt" \notin DOMAIN generated[1]
                /\ \A i \in 1..r :
                      generated[i + 1].prompt =
                          [previous_version |-> artifact[i],
                           feedback |-> chain[i].feedback]
                /\ Len(judged) = r
                /\ \A i \in 1..r :
                      judged[i].prompt =
                          [previous_version |-> artifact[i],
                           feedback |-> chain[i].feedback,
                           revised_version |-> artifact[i + 1]]
                /\ EntriesOf(j, "evaluate", "revision")[1].input = artifact
                /\ \A e \in 1..4 :
                      EntriesOf(j, "evaluate", EvaluatorOrder[e])[1].input
                          = artifact[r + 1]

\* A two-round task scored after a single task, its three versions not all
\* the same.
C23_Witness ==
    /\ Len(tasks) = 2
    /\ ~IsRevisionTask(tasks[1])
    /\ ChainEvaluated(2) /\ TaskScored(2)
    /\ Len(tasks[2].revision_chain.items) = 2
    /\ Len(EntriesOf(2, "judge_call", "revision")) = 2
    /\ ResultOf(2).revisions[1] # ResultOf(2).revisions[2]

----------------------------------------------------------------------------
(* Claims about failed calls (Spec) *)

\* The reply the judge stub gave to the judge call logged at index i.
ReplyTo(i) ==
    Replay(judge_script,
           Cardinality({h \in 1..(i - 1) : call_log[h].op = "judge_call"}))

\* The items each evaluator has for a task.
ItemsOf(task, evaluator) ==
    IF evaluator = "judge" THEN 1
    ELSE IF evaluator = "stakeholder"
         THEN Len(task.scenario.stakeholders.items)
    ELSE IF evaluator = "audience"
         THEN IF task.scenario.stakeholders.items = <<>> THEN 2
              ELSE Cardinality({task.scenario.stakeholders.items[i].name :
                                   i \in 1..Len(task.scenario.stakeholders.items)})
    ELSE Len(task.revision_chain.items)

\* C24: no failed generation or judge call is issued again: in one
\* evaluate_task nothing is generated after a generation failure, each
\* evaluator makes at most one judge call per item (one for the judge
\* dimension, one per audience, one per stakeholder, one per revision
\* round), exactly one once it has run, whether the calls succeed or fail;
\* a failed judge call ends as a neutral score or an error entry.
C24_NoRetry ==
    \A j \in 1..Len(tasks) :
        /\ \A a \in CallsOf(j, "raise", "model"), b \in CallsOf(j, "generate", "model") :
              b < a
        /\ Cardinality(CallsOf(j, "generate", "model"))
               <= Len(tasks[j].revision_chain.items) + 1
        /\ \A e \in 2..5 :
              LET made == Cardinality(CallsOf(j, "judge_call", EvaluatorOrder[e]))
                  items == ItemsOf(tasks[j], EvaluatorOrder[e])
              IN  /\ made <= items
                  /\ CallsOf(j, "evaluate", EvaluatorOrder[e]) # {} => made = items
        /\ TaskScored(j) =>
              /\ \A i \in CallsOf(j, "judge_call", "judge") :
                    ReplyTo(i) = Raises =>
                        LET entry == ResultOf(j).dimension_scores
                                         .professional_appropriateness
                        IN  /\ entry.score = NeutralScore * Scale
                            /\ "error" \in DOMAIN entry.details
              /\ LET judged == CallsOf(j, "judge_call", "revision")
                     rounds == ResultOf(j).dimension_scores.revision_coherence
                                   .details.revision_rounds
                 IN  \A i \in judged :
                        ReplyTo(i) = Raises =>
                            "error" \in DOMAIN
                                rounds[Cardinality({h \in judged : h <= i})]

\* A scored two-round task whose judge call and first revision judgement
\* both failed, every evaluator having made its calls once.
C24_Witness ==
    /\ Len(tasks) = 1
    /\ TaskScored(1)
    /\ Len(tasks[1].revision_chain.items) = 2
    /\ \E i \in CallsOf(1, "judge_call", "judge") : ReplyTo(i) = Raises
    /\ \E i \in CallsOf(1, "judge_call", "revision") : ReplyTo(i) = Raises
    /\ Cardinality(CallsOf(1, "judge_call", "revision")) = 2
    /\ Cardinality(CallsOf(1, "judge_call", "audience")) = 2

----------------------------------------------------------------------------
(* Claims about the order of the extraction attempts (SpecExtract) *)

Yields(span) == span # None /\ span.parses

\* C25: the extraction fails only if neither the fenced-block attempt nor
\* the bare-object scan yields a parseable object; when a fenced block is
\* found but its content does not parse, the bare-object scan is still
\* attempted and its parseable object is returned.
C25_FirstSuccessWins ==
    (eout # None /\ ein.evaluator = "extract") =>
        LET fenced == FencedSpan(ein.text)
            bare == BareSpan(ein.text)
        IN  /\ ~eout.extracted.ok <=> (~Yields(fenced) /\ ~Yields(bare))
            /\ (fenced = Unparsable /\ Yields(bare)) =>
                   eout.extracted = Ok(bare.object)

----------------------------------------------------------------------------
(* Claims about the audiences (SpecEval) *)

\* C26: when the task declares k >= 1 stakeholders, exactly k audiences are
\* evaluated, one judge call and one details entry per stakeholder, also
\* when two stakeholders share a name; when it declares none, exactly the
\* two default audiences are evaluated; at least one audience is evaluated
\* for every task.
C26_AudiencePerStakeholder ==
    Called("audience") =>
        LET declared == Len(ein.task.scenario.stakeholders.items)
        IN  /\ eout.calls >= 1
            /\ declared >= 1 => eout.calls = declared
            /\ declared = 0 => eout.calls = 2
            /\ ~eout.raised =>
                  LET entries == DOMAIN eout.score.details.audience_scores
                  IN  /\ declared >= 1 => Cardinality(entries) = declared
                      /\ declared = 0 =>
                             entries = {"Executive", "General Professional"}

----------------------------------------------------------------------------
(* Claims about the fast path (SpecQuick) *)

\* C27: for every Constraints value (no range, a range with only min or only
\* max, empty element lists) and every text, quick_check returns true iff
\* evaluate on the same constraints and text returns passed = true.
C27_QuickCheckAgrees ==
    (cout # None /\ "quick" \in DOMAIN cout) => (cout.quick <=> cout.full.passed)

\* A text inside the tolerance band but outside the declared range, which
\* both methods accept.
C27_Witness ==
    /\ cout # None /\ "quick" \in DOMAIN cout
    /\ cin.constraints.word_count = [min |-> 10, max |-> 10]
    /\ count_words(cin.text) = 11
    /\ cout.quick /\ cout.full.passed

----------------------------------------------------------------------------
(* Claims about the aggregate result's consistency (SpecAgg) *)

\* C28: for every list of Scores (also Scores that pass while carrying tags),
\* a non-empty critical_failures list in the result comes with passed =
\* false and penalty_multiplier = 0.5^len(critical_failures) < 1; an empty
\* one comes with penalty_multiplier exactly 1.
C28_AggregateConsistent ==
    Aggregated =>
        LET n == Len(aout.critical_failures)
        IN  /\ n > 0 =>
                  /\ ~aout.passed
                  /\ aout.penalty_multiplier = [num |-> 1, den |-> 2 ^ n]
                  /\ aout.penalty_multiplier.den > aout.penalty_multiplier.num
            /\ n = 0 => aout.penalty_multiplier = [num |-> 1, den |-> 1]

\* Two failed Scores with two tags each, next to none that passes with tags.
C28_Witness ==
    /\ Aggregated
    /\ Len(ain) = 2
    /\ Len(aout.critical_failures) = 4
    /\ aout.penalty_multiplier.den = 16
    /\ ~aout.passed

----------------------------------------------------------------------------
(* Claims about the range of the scores (Spec) *)

InRange(score) == 0 <= score /\ score <= 100 * Scale

\* C29: for every task evaluated by the orchestrator with the default weight
\* table, the judge supplying scores in [0, 100] only, each of the five
\* dimension scores lies in [0, 100] and so does the task's overall_score,
\* whichever judge calls fail.
C29_ScoresBounded ==
    \A j \in 1..Len(tasks) :
        TaskScored(j) =>
            /\ DOMAIN ResultOf(j).dimension_scores =
                   {Dimensions[i] : i \in 1..Len(Dimensions)}
            /\ \A d \in DOMAIN ResultOf(j).dimension_scores :
                   InRange(ResultOf(j).dimension_scores[d].score)
            /\ InRange(ResultOf(j).overall_score)

\* One task scored 100 overall although a judge call of its audience
\* evaluator failed, another scored with a failed judge dimension and a
\* penalty.
C29_Witness ==
    /\ Len(task_results) = 2
    /\ TaskScored(1) /\ TaskScored(2)
    /\ \E j \in 1..2 :
          /\ ResultOf(j).overall_score = 100 * Scale
          /\ \E i \in CallsOf(j, "judge_call", "audience") : ReplyTo(i) = Raises
    /\ \E j \in 1..2 :
          /\ ResultOf(j).overall_score < 50 * Scale
          /\ ResultOf(j).critical_failures # <<>>

----------------------------------------------------------------------------
(* Claims about the size of the penalty (Spec) *)

KnownTags ==
    {"missing_required_elements", "contains_forbidden_content",
     "inappropriate_professional_tone"}

\* C30: in every task result produced by evaluate_task, critical_failures
\* holds at most 3 tags, each one of missing_required_elements,
\* contains_forbidden_content, inappropriate_professional_tone and each at
\* most once, so penalty_multiplier is one of 1, 0.5, 0.25, 0.125.
C30_PenaltyBounded ==
    \A j \in 1..Len(tasks) :
        TaskScored(j) =>
            LET tags == ResultOf(j).critical_failures
            IN  /\ Len(tags) <= 3
                /\ \A i \in 1..Len(tags) : tags[i] \in KnownTags
                /\ \A a \in 1..Len(tags), b \in 1..Len(tags) :
                       tags[a] = tags[b] => a = b
                /\ ResultOf(j).penalty_multiplier.num = 1
                /\ ResultOf(j).penalty_multiplier.den \in {1, 2, 4, 8}

\* A task whose text misses two required elements, holds a forbidden one
\* and is flagged by the judge: three tags, one eighth.
C30_Witness ==
    \E j \in 1..Len(tasks) :
        /\ TaskScored(j)
        /\ Len(ResultOf(j).critical_failures) = 3
        /\ ResultOf(j).penalty_multiplier.den = 8
        /\ Len(ResultOf(j).dimension_scores.constraint_satisfaction
                   .details.failures) = 3

============================================================================
